---- MODULE Spec2Model ----
\* Agent router: the message ingestion pipeline (message_router_service.py),
\* the directory (CAMS) repository and its clients, the management and
\* health-report handlers, and the retrying HTTP directory client.
EXTENDS Integers, Sequences, FiniteSets, TLC

VARIABLES
    agent_inboxes,     \* the table agent_inboxes: address -> row
    clock,             \* datetime.now(timezone.utc), as a logical time
    uuid_next,         \* the next value uuid.uuid4() hands out
    simulate_failure,  \* PubSubPublisher.simulate_failure
    lookup_patched,    \* whether cams_client.get_agent_mapping is the replacement of Scenario 9
    published,         \* messages the publisher stub accepted, in order
    ingestion,         \* the last call of handle_message_ingestion
    health,            \* report_agent_health requests, by request id
    mgmt,              \* register_agent_mapping requests (management API), by request id
    mgmt_update,       \* the last call of the management PUT handler
    client_reg,        \* results of direct CAMSClient.register_agent_mapping calls, in order
    http,              \* one CAMSClient._request of the async HTTP client
    mgmt_delete,       \* delete_agent_mapping requests (management API), by request id
    inboxes,           \* AgentInboxService.inboxes: address -> inbox data
    inbox_call,        \* the last call of a method of AgentInboxService
    mgmt_get,          \* the last call of the management GET handler
    client_call,       \* the last direct call of a function of a directory client
    metrics,           \* MetricsCollector: _counters and _histograms
    timed,             \* the callers of an operation wrapped by timed_operation
    pool               \* _pool of the repository, the pools created and the operations using them

vars == <<agent_inboxes, clock, uuid_next, simulate_failure, lookup_patched, published,
          ingestion, health, mgmt, mgmt_update, client_reg, http, mgmt_delete, inboxes,
          inbox_call, mgmt_get, client_call, metrics, timed, pool>>

-----------------------------------------------------------------------------
\* Bounds of the model.

\* longest string drawn for a request's aiAgentAddress
MaxLen == 2
\* largest value of the logical clock
MaxClock == 1
\* number of handle_message_ingestion calls (uuid4 values handed out)
MaxCalls == 2

-----------------------------------------------------------------------------
\* Python values. A str is a sequence of one-character strings.

Chars == {" ", "a"}

RECURSIVE StringsUpTo(_)
StringsUpTo(n) ==
    IF n = 0 THEN {<<>>}
    ELSE LET shorter == StringsUpTo(n - 1)
         IN  shorter \cup {Append(s, c) : s \in {t \in shorter : Len(t) = n - 1}, c \in Chars}

Strings == StringsUpTo(MaxLen)

\* Records are written with their fields in the order in which TLC keeps them (the
\* order in which the names first occur in this module), so that a record shared
\* between workers is never rearranged.
\* ty: the type; s: the characters of a str; n: an int's value or a dict's number
\* of keys; ser: whether json.dumps accepts the value
PyNone == [n |-> 0, s |-> <<>>, ty |-> "NoneType", ser |-> TRUE]
PyStr(s) == [n |-> 0, s |-> s, ty |-> "str", ser |-> TRUE]
PyInt(n) == [n |-> n, s |-> <<>>, ty |-> "int", ser |-> TRUE]
PyDict(n, ser) == [n |-> n, s |-> <<>>, ty |-> "dict", ser |-> ser]
\* what calling an `async def` function evaluates to when it is not awaited:
\* a coroutine object (here of get_agent_mapping, for address s)
PyCoroutine(s) == [n |-> 0, s |-> s, ty |-> "coroutine", ser |-> FALSE]

\* bool(v)
Truthy(v) ==
    CASE v.ty = "NoneType" -> FALSE
      [] v.ty = "str" -> Len(v.s) > 0
      [] v.ty = "int" -> v.n # 0
      [] v.ty = "dict" -> v.n > 0
      [] OTHER -> TRUE

\* str.strip()
RECURSIVE LStrip(_)
LStrip(s) == IF s # <<>> /\ Head(s) = " " THEN LStrip(Tail(s)) ELSE s

RECURSIVE RStrip(_)
RStrip(s) ==
    IF s # <<>> /\ s[Len(s)] = " " THEN RStrip(SubSeq(s, 1, Len(s) - 1)) ELSE s

Strip(s) == RStrip(LStrip(s))

\* str.upper(), on the strings the model draws
Upper(x) ==
    CASE x = "healthy" -> "HEALTHY"
      [] x = "unhealthy" -> "UNHEALTHY"
      [] x = "active" -> "ACTIVE"
      [] x = "inactive" -> "INACTIVE"
      [] x = "paused" -> "PAUSED"
      [] x = "gcp_pubsub_topic" -> "GCP_PUBSUB_TOPIC"
      [] OTHER -> x

\* dict.get(key): None when the key is absent
DictGet(d, key) == IF key \in d.keys THEN d[key] ELSE PyNone

-----------------------------------------------------------------------------
\* The directory table and the repository (cams_repository.py).

NoTime == [v |-> 0, some |-> FALSE]
At(t) == [v |-> t, some |-> TRUE]

\* addresses that get registered
Addresses == {<<"a">>, <<"a", "a">>}
InboxNames == {"", "topic"}
\* values given as inbox_destination_type
DestinationTypes == {"GCP_PUBSUB_TOPIC", "gcp_pubsub_topic"}

Row(dtype, name, status, by) ==
    [status |-> status, inbox_destination_type |-> dtype, inbox_name |-> name,
     last_health_check_timestamp |-> NoTime, updated_by |-> by,
     ai_agent_address |-> <<>>, registration_timestamp |-> NoTime,
     last_updated_timestamp |-> NoTime]

\* the column registration_timestamp of a new row: the time of the INSERT
RegistrationDefault(now) == At(now)

\* the column last_updated_timestamp, which no statement of the repository
\* assigns: the table sets it to the time of the INSERT or UPDATE that writes the
\* row
LastUpdatedStamp(now) == At(now)

\* the row an INSERT for addr stores
StoredRow(addr, dtype, name, status, by, now) ==
    [Row(dtype, name, status, by) EXCEPT !.ai_agent_address = addr,
                                         !.registration_timestamp = RegistrationDefault(now),
                                         !.last_updated_timestamp = LastUpdatedStamp(now)]

\* asyncpg.UniqueViolationError is a subclass of asyncpg.PostgresError
PostgresErrors == {"UniqueViolationError", "PostgresError"}

\* _fetchrow: every asyncpg.PostgresError leaves as CAMSRepositoryError
FetchrowRaises(dbexc) ==
    IF dbexc \in PostgresErrors THEN "CAMSRepositoryError" ELSE dbexc

\* the table's ai_agent_address key: an INSERT of a present address is refused
InsertViolatesUnique(tbl, addr) == addr \in DOMAIN tbl

\* register_agent_mapping as it would be if the INSERT replaced a row that exists
RepoRegisterOverwrites(tbl, addr, dtype, name, by, status, now) ==
    [tbl |-> [a \in DOMAIN tbl \cup {addr} |->
                IF a = addr THEN StoredRow(addr, Upper(dtype), name, Upper(status), by, now)
                ELSE tbl[a]],
     exc |-> ""]

\* register_agent_mapping as it would be if inbox_destination_type were stored as
\* given
RepoRegisterTypeAsGiven(tbl, addr, dtype, name, by, status, now) ==
    IF InsertViolatesUnique(tbl, addr)
    THEN [tbl |-> tbl, exc |-> FetchrowRaises("UniqueViolationError")]
    ELSE [tbl |-> [a \in DOMAIN tbl \cup {addr} |->
                     IF a = addr THEN StoredRow(addr, dtype, name, Upper(status), by, now)
                     ELSE tbl[a]],
          exc |-> ""]

\* register_agent_mapping: INSERT ... RETURNING * through _fetchrow
RepoRegister(tbl, addr, dtype, name, by, status, now) ==
    IF InsertViolatesUnique(tbl, addr)
    THEN [tbl |-> tbl, exc |-> FetchrowRaises("UniqueViolationError")]
    ELSE [tbl |-> [a \in DOMAIN tbl \cup {addr} |->
                     IF a = addr THEN StoredRow(addr, Upper(dtype), name, Upper(status), by, now)
                     ELSE tbl[a]],
          exc |-> ""]

\* get_agent_mapping: SELECT * ... WHERE ai_agent_address = $1
RepoGet(tbl, addr) ==
    IF addr \in DOMAIN tbl THEN [found |-> TRUE, row |-> tbl[addr]]
    ELSE [found |-> FALSE, row |-> Row("", "", "", "")]

\* allowed_fields as it would be with the registration time among them
AllowedFieldsWithRegistration ==
    {"inbox_destination_type", "inbox_name", "status", "description", "owner_team",
     "last_health_check_timestamp", "registration_timestamp"}

\* update_agent_mapping_details: UPDATE ... SET <fields>, updated_by = $1
\* fields: the keyword arguments, a record over a subset of the allowed names
AllowedFields ==
    {"inbox_destination_type", "inbox_name", "status", "description", "owner_team",
     "last_health_check_timestamp"}

\* update_agent_mapping_details as it would be with `SET <fields>` alone, so that
\* the row keeps the updated_by it had
RepoUpdateFieldsOnly(tbl, addr, by, fields, now) ==
    IF DOMAIN fields = {} THEN [tbl |-> tbl, exc |-> "ValueError"]
    ELSE IF DOMAIN fields \ AllowedFields # {} THEN [tbl |-> tbl, exc |-> "ValueError"]
    ELSE IF addr \notin DOMAIN tbl THEN [tbl |-> tbl, exc |-> "AgentNotFoundError"]
    ELSE LET old == tbl[addr]
             new == [f \in DOMAIN old |->
                       IF f = "last_updated_timestamp" THEN LastUpdatedStamp(now)
                       ELSE IF f \notin DOMAIN fields THEN old[f]
                       ELSE IF f = "status" THEN Upper(fields[f])
                       ELSE IF f = "last_health_check_timestamp" /\ ~fields[f].some
                            THEN At(now)
                       ELSE fields[f]]
         IN  [tbl |-> [tbl EXCEPT ![addr] = new], exc |-> ""]

RepoUpdate(tbl, addr, by, fields, now) ==
    IF DOMAIN fields = {} THEN [tbl |-> tbl, exc |-> "ValueError"]
    ELSE IF DOMAIN fields \ AllowedFields # {} THEN [tbl |-> tbl, exc |-> "ValueError"]
    ELSE IF addr \notin DOMAIN tbl THEN [tbl |-> tbl, exc |-> "AgentNotFoundError"]
    ELSE LET old == tbl[addr]
             new == [f \in DOMAIN old |->
                       IF f = "updated_by" THEN by
                       ELSE IF f = "last_updated_timestamp" THEN LastUpdatedStamp(now)
                       ELSE IF f \notin DOMAIN fields THEN old[f]
                       ELSE IF f = "status" THEN Upper(fields[f])
                       ELSE IF f = "last_health_check_timestamp" /\ ~fields[f].some
                            THEN At(now)
                       ELSE fields[f]]
         IN  [tbl |-> [tbl EXCEPT ![addr] = new], exc |-> ""]

\* delete_agent_mapping as it would be if a DELETE that matches no row were taken
\* for a success
RepoDeleteIdempotent(tbl, addr) ==
    [tbl |-> [a \in DOMAIN tbl \ {addr} |-> tbl[a]], exc |-> ""]

\* delete_agent_mapping: DELETE ... RETURNING ai_agent_address
RepoDelete(tbl, addr) ==
    IF addr \notin DOMAIN tbl THEN [tbl |-> tbl, exc |-> "AgentNotFoundError"]
    ELSE [tbl |-> [a \in DOMAIN tbl \ {addr} |-> tbl[a]], exc |-> ""]

-----------------------------------------------------------------------------
\* The ingestion pipeline (message_router_service.py).

\* create_json_response, and an exception leaving the function
Returned(code, err, mid) ==
    [exc |-> "", kind |-> "return", statusCode |-> code, errorCode |-> err,
     messageId |-> mid]
Raised(e) ==
    [exc |-> e, kind |-> "raise", statusCode |-> 0, errorCode |-> "", messageId |-> 0]

\* the result of running the pipeline: the response, the number of calls made to
\* cams_client.get_agent_mapping, the number of calls made to publish_message and
\* the messages the publisher accepted
Outcome(resp, lookups, attempts, msgs) ==
    [resp |-> resp, msgs |-> msgs, cams_calls |-> lookups, publish_calls |-> attempts]

\* the first validation without its third test, `not ai_agent_address.strip()`
AddressRejectedNoStrip(v) ==
    \/ ~Truthy(v)
    \/ v.ty # "str"

\* the first validation: `not ai_agent_address or not isinstance(ai_agent_address,
\* str) or not ai_agent_address.strip()`
AddressRejected(v) ==
    \/ ~Truthy(v)
    \/ v.ty # "str"
    \/ ~Truthy(PyStr(Strip(v.s)))

\* the two validations of the payload: `is None`, `not isinstance(..., dict)`
PayloadRejected(v) == v.ty = "NoneType" \/ v.ty # "dict"

\* the lookup call as it would be if it gave an ACTIVE mapping whatever the
\* table holds
WrapperGetAgentMappingCallActive(address) ==
    [n |-> 3, s |-> <<>>, ty |-> "dict", ser |-> TRUE,
     row |-> Row("GCP_PUBSUB_TOPIC", "topic", "ACTIVE", "")]

\* CAMSClientWrapper.get_agent_mapping is an `async def` wrapped by timed_operation's
\* async_wrapper: called from the synchronous handle_message_ingestion without
\* await, it hands back a coroutine object and never runs the lookup
WrapperGetAgentMappingCall(address) == PyCoroutine(address)

\* Scenario 9 replaces cams_client.get_agent_mapping by a plain function that
\* answers for one address with an ACTIVE mapping whose inboxName is None and
\* passes every other address on to the method it replaced
NoInboxAddress == <<"a", "a">>
NoInboxMapping ==
    [n |-> 3, s |-> <<>>, ty |-> "dict", ser |-> TRUE, row |-> Row("", "", "ACTIVE", "")]

\* cams_client.get_agent_mapping(ai_agent_address) as handle_message_ingestion
\* calls it
LookupCall(patched, address) ==
    IF patched /\ address = NoInboxAddress THEN NoInboxMapping
    ELSE WrapperGetAgentMappingCall(address)

\* the attributes of the message, steps 5.2 of the transformation
Attributes(mid, address, sender_metadata, now) ==
    [messageId |-> mid, aiAgentAddress |-> address, timestampPublished |-> now,
     contentType |-> "application/json",
     sender |-> IF sender_metadata.ty = "dict"
                THEN sender_metadata.keys \cap
                     {"serviceName", "correlationId", "senderProvidedMessageId"}
                ELSE {}]

\* PubSubPublisher.publish_message: raises when simulate_failure is set
PublishRaises(sim) == sim

\* handle_message_ingestion from step 4 on, for the value the lookup call gave
RouteMessage(agent_mapping, request, address, payload, mid, sim, now) ==
    IF ~Truthy(agent_mapping)
    THEN Outcome(Returned(404, "AGENT_NOT_FOUND", 0), 1, 0, <<>>)
    ELSE IF agent_mapping.ty # "dict"
    THEN \* agent_mapping.get: a coroutine object has no attribute 'get'
         Outcome(Raised("AttributeError"), 1, 0, <<>>)
    ELSE IF agent_mapping.row.status = "INACTIVE"
    THEN Outcome(Returned(404, "AGENT_INACTIVE", 0), 1, 0, <<>>)
    ELSE IF agent_mapping.row.status # "ACTIVE"
    THEN Outcome(Returned(500, "INTERNAL_SERVER_ERROR", 0), 1, 0, <<>>)
    ELSE IF agent_mapping.row.inbox_name = ""
    THEN Outcome(Returned(500, "CONFIG_ERROR", 0), 1, 0, <<>>)
    ELSE IF ~payload.ser
    THEN Outcome(Returned(500, "TRANSFORMATION_ERROR", 0), 1, 0, <<>>)
    ELSE LET sender_metadata ==
                 IF "senderMetadata" \in request.keys THEN request.senderMetadata
                 ELSE [ty |-> "dict", keys |-> {}]
             message ==
                 [topic |-> agent_mapping.row.inbox_name,
                  data |-> payload.n,
                  attributes |-> Attributes(mid, address, sender_metadata, now)]
         IN  IF PublishRaises(sim)
             THEN Outcome(Returned(500, "PUB_SUB_ERROR", 0), 1, 1, <<>>)
             ELSE Outcome(Returned(202, "", mid), 1, 1, <<message>>)

\* handle_message_ingestion(request_payload)
IngestionOutcome(request, mid, sim, now, patched) ==
    LET ai_agent_address == DictGet(request, "aiAgentAddress")
        payload_content == DictGet(request, "payload")
    IN  IF AddressRejected(ai_agent_address)
        THEN Outcome(Returned(400, "INVALID_REQUEST", 0), 0, 0, <<>>)
        ELSE IF PayloadRejected(payload_content)
        THEN Outcome(Returned(400, "INVALID_REQUEST", 0), 0, 0, <<>>)
        ELSE RouteMessage(LookupCall(patched, ai_agent_address.s), request,
                          ai_agent_address.s, payload_content, mid, sim, now)

\* the status of the table's row for the value given as aiAgentAddress
StoredStatus(tbl, v) ==
    IF v.ty = "str" /\ v.s \in DOMAIN tbl THEN tbl[v.s].status ELSE "ABSENT"

StoredInbox(tbl, v) ==
    IF v.ty = "str" /\ v.s \in DOMAIN tbl THEN tbl[v.s].inbox_name ELSE ""

EmptyRequest ==
    [keys |-> {}, aiAgentAddress |-> PyNone, payload |-> PyNone,
     senderMetadata |-> [ty |-> "NoneType", keys |-> {}]]

IdleIngestion ==
    [mid |-> 0, patched |-> FALSE, sim |-> FALSE, request |-> EmptyRequest,
     called |-> FALSE, out |-> Outcome(Raised(""), 0, 0, <<>>),
     stored_status |-> "ABSENT", stored_inbox |-> ""]

\* one call of handle_message_ingestion: the function is synchronous, so it runs
\* from its first line to its return (or raise) without another task in between.
\* stored_status, stored_inbox, sim and patched record what the table, the
\* publisher and cams_client held when the call ran.
HandleMessageIngestion(request) ==
    /\ uuid_next <= MaxCalls
    /\ LET out == IngestionOutcome(request, uuid_next, simulate_failure, clock,
                                   lookup_patched)
           address == DictGet(request, "aiAgentAddress")
       IN  /\ ingestion' = [mid |-> uuid_next, patched |-> lookup_patched, sim |-> simulate_failure,
                            request |-> request,
                            called |-> TRUE,
                            out |-> out,
                            stored_status |-> StoredStatus(agent_inboxes, address),
                            stored_inbox |-> StoredInbox(agent_inboxes, address)]
           /\ published' = published \o out.msgs
    /\ uuid_next' = uuid_next + 1
    /\ UNCHANGED <<agent_inboxes, clock, simulate_failure, lookup_patched, health, mgmt,
                   mgmt_update, client_reg, http, mgmt_delete, inboxes, inbox_call,
                   mgmt_get, client_call,
                   metrics, timed, pool>>

\* `cams_client.get_agent_mapping = mock_cams_get_mapping_for_no_inbox_test`
PatchLookup ==
    /\ ~lookup_patched
    /\ lookup_patched' = TRUE
    /\ UNCHANGED <<agent_inboxes, clock, uuid_next, simulate_failure, published, ingestion,
                   health, mgmt, mgmt_update, client_reg, http, mgmt_delete, inboxes,
                   inbox_call,
                   mgmt_get, client_call,
                   metrics, timed, pool>>

\* `cams_client.get_agent_mapping = original_cams_client_get_mapping_method`
RestoreLookup ==
    /\ lookup_patched
    /\ lookup_patched' = FALSE
    /\ UNCHANGED <<agent_inboxes, clock, uuid_next, simulate_failure, published, ingestion,
                   health, mgmt, mgmt_update, client_reg, http, mgmt_delete, inboxes,
                   inbox_call,
                   mgmt_get, client_call,
                   metrics, timed, pool>>

\* the test hook PubSubPublisher.simulate_failure is switched
SetSimulateFailure ==
    /\ simulate_failure' = ~simulate_failure
    /\ UNCHANGED <<agent_inboxes, clock, uuid_next, lookup_patched, published, ingestion,
                   health, mgmt, mgmt_update, client_reg, http, mgmt_delete, inboxes,
                   inbox_call,
                   mgmt_get, client_call,
                   metrics, timed, pool>>

-----------------------------------------------------------------------------
\* The directory client of the router (router/cams_client.py), called directly.

\* CAMSClient.register_agent_mapping: DuplicateAgentError becomes ValueError, any
\* other CAMSRepositoryError is raised again
ClientRegisterRaises(repo_exc) ==
    IF repo_exc = "DuplicateAgentError" THEN "ValueError" ELSE repo_exc

\* the parameters of CAMSClient.register_agent_mapping and the methods of CAMSClient
ClientRegisterParams ==
    {"ai_agent_address", "inbox_destination_type", "inbox_name", "description",
     "owner_team", "updated_by"}
ClientMethods ==
    {"register_agent_mapping", "get_agent_mapping", "update_agent_status",
     "update_agent_mapping_details", "delete_agent_mapping", "list_agent_mappings"}

\* CAMSClient.update_agent_mapping_details and update_agent_status: a missing row
\* (AgentNotFoundError) becomes the return value None / False
ClientUpdateRaises(repo_exc) ==
    IF repo_exc = "AgentNotFoundError" THEN "" ELSE repo_exc

RegCallers == {"c1", "c2"}

IdleReg ==
    [dtype |-> "", inbox_name |-> "", exc |-> "", address |-> <<>>, repo_exc |-> "",
     done |-> FALSE, existed |-> FALSE]

\* CAMSClientWrapper.register_agent_mapping -> CAMSClient.register_agent_mapping ->
\* repository register_agent_mapping: one INSERT
ClientRegister(c, address, dtype, inbox_name) ==
    /\ ~client_reg[c].done
    /\ LET r == RepoRegister(agent_inboxes, address, dtype, inbox_name,
                             "router_service", "ACTIVE", clock)
       IN  /\ agent_inboxes' = r.tbl
           /\ client_reg' = [client_reg EXCEPT ![c] =
                  [dtype |-> dtype, inbox_name |-> inbox_name,
                   exc |-> ClientRegisterRaises(r.exc),
                   address |-> address, repo_exc |-> r.exc,
                   done |-> TRUE, existed |-> address \in DOMAIN agent_inboxes]]
    /\ UNCHANGED <<clock, uuid_next, simulate_failure, lookup_patched, published, ingestion,
                   health, mgmt, mgmt_update, http, mgmt_delete, inboxes, inbox_call,
                   mgmt_get, client_call,
                   metrics, timed, pool>>

\* CAMSClient.get_agent_mapping: None when there is no row, otherwise the row under
\* the client's camelCase keys
ClientGet(tbl, addr) ==
    LET r == RepoGet(tbl, addr)
    IN  IF ~r.found THEN [found |-> FALSE]
        ELSE [status |-> r.row.status,
              found |-> TRUE,
              aiAgentAddress |-> addr,
              inboxDestinationType |-> r.row.inbox_destination_type,
              inboxName |-> r.row.inbox_name,
              updatedBy |-> r.row.updated_by]

\* the caller of a finished register call makes its next call
ClientRegisterReturn(c) ==
    /\ client_reg[c].done
    /\ client_reg' = [client_reg EXCEPT ![c] = IdleReg]
    /\ UNCHANGED <<agent_inboxes, clock, uuid_next, simulate_failure, lookup_patched,
                   published, ingestion, health, mgmt, mgmt_update, http, mgmt_delete,
                   inboxes, inbox_call,
                   mgmt_get, client_call,
                   metrics, timed, pool>>

\* CAMSClient.update_agent_status(address, new_status)
ClientUpdateStatus(address, new_status) ==
    /\ agent_inboxes' = RepoUpdate(agent_inboxes, address, "router_service",
                                   [status |-> new_status], clock).tbl
    /\ UNCHANGED <<clock, uuid_next, simulate_failure, lookup_patched, published, ingestion,
                   health, mgmt, mgmt_update, client_reg, http, mgmt_delete, inboxes,
                   inbox_call,
                   mgmt_get, client_call,
                   metrics, timed, pool>>

\* CAMSClient.update_agent_mapping_details(address, **fields)
ClientUpdateDetails(address, fields) ==
    /\ agent_inboxes' = RepoUpdate(agent_inboxes, address, "router_service", fields,
                                   clock).tbl
    /\ UNCHANGED <<clock, uuid_next, simulate_failure, lookup_patched, published, ingestion,
                   health, mgmt, mgmt_update, client_reg, http, mgmt_delete, inboxes,
                   inbox_call, mgmt_get, client_call,
                   metrics, timed, pool>>

\* CAMSClient.delete_agent_mapping(address)
ClientDelete(address) ==
    /\ agent_inboxes' = RepoDelete(agent_inboxes, address).tbl
    /\ UNCHANGED <<clock, uuid_next, simulate_failure, lookup_patched, published, ingestion,
                   health, mgmt, mgmt_update, client_reg, http, mgmt_delete, inboxes,
                   inbox_call,
                   mgmt_get, client_call,
                   metrics, timed, pool>>

\* time passes
Tick ==
    /\ clock < MaxClock
    /\ clock' = clock + 1
    /\ UNCHANGED <<agent_inboxes, uuid_next, simulate_failure, lookup_patched, published,
                   ingestion, health, mgmt, mgmt_update, client_reg, http, mgmt_delete,
                   inboxes, inbox_call,
                   mgmt_get, client_call,
                   metrics, timed, pool>>

-----------------------------------------------------------------------------
\* The health-report handler (routers/agent_health.py). Its cams_client is the
\* CAMSClientWrapper of message_router_service, whose methods it awaits.

\* the detail of the HTTPException that `except Exception` raises
GenericDetail == "An error occurred"

\* `except Exception as e` as it would be if the detail were str(e)
HandlerErrorDetailWithText(exc) == exc

\* `except Exception as e` of a handler: str(e) goes to the log, the detail is a
\* fixed text
HandlerErrorDetail(exc) == GenericDetail

HealthHandlers == {"h1"}
HealthStatuses == {"HEALTHY", "UNHEALTHY", "unhealthy", "DEGRADED"}

IdleHealth ==
    [code |-> 0, address |-> <<>>, pc |-> "idle", health_status |-> "",
     stamp |-> NoTime, row_updated |-> FALSE, reads |-> 0, writes |-> 0,
     given |-> NoTime, raised |-> "", detail |-> ""]

\* update_data as it would be if a HEALTHY report set the status ACTIVE
HealthUpdateFieldsReactivating(health_status, stamp) ==
    IF health_status = "UNHEALTHY"
    THEN [status |-> "INACTIVE", last_health_check_timestamp |-> stamp]
    ELSE [status |-> "ACTIVE", last_health_check_timestamp |-> stamp]

\* update_data without updated_by: the keyword arguments that reach the repository
HealthUpdateFields(health_status, stamp) ==
    IF health_status = "UNHEALTHY"
    THEN [status |-> "INACTIVE", last_health_check_timestamp |-> stamp]
    ELSE [last_health_check_timestamp |-> stamp]

\* report_agent_health up to the await of update_agent_mapping as it would be
\* without the test of the lookup's result
ReportAgentHealthLookupNoCheck(h, address, status, timestamp) ==
    /\ health[h].pc # "update"
    /\ LET health_status == Upper(status)
       IN  health' = [health EXCEPT ![h] =
               IF health_status \notin {"HEALTHY", "UNHEALTHY"}
               THEN [IdleHealth EXCEPT !.pc = "done", !.address = address,
                                       !.health_status = health_status, !.code = 400]
               ELSE [IdleHealth EXCEPT !.pc = "update", !.address = address,
                                       !.health_status = health_status,
                                       !.stamp = IF timestamp.some THEN timestamp
                                                 ELSE At(clock),
                                       !.reads = 1, !.given = timestamp]]
    /\ UNCHANGED <<agent_inboxes, clock, uuid_next, simulate_failure, lookup_patched,
                   published, ingestion, mgmt, mgmt_update, client_reg, http, mgmt_delete,
                   inboxes, inbox_call,
                   mgmt_get, client_call,
                   metrics, timed, pool>>

\* report_agent_health up to the await of update_agent_mapping as it would be if
\* the lookup came before the validation of the status
ReportAgentHealthLookupFirst(h, address, status, timestamp) ==
    /\ health[h].pc # "update"
    /\ LET health_status == Upper(status)
           found == RepoGet(agent_inboxes, address).found
       IN  health' = [health EXCEPT ![h] =
               IF ~found
               THEN [IdleHealth EXCEPT !.pc = "done", !.address = address,
                                       !.health_status = health_status, !.code = 404,
                                       !.reads = 1]
               ELSE IF health_status \notin {"HEALTHY", "UNHEALTHY"}
               THEN [IdleHealth EXCEPT !.pc = "done", !.address = address,
                                       !.health_status = health_status, !.code = 400,
                                       !.reads = 1]
               ELSE [IdleHealth EXCEPT !.pc = "update", !.address = address,
                                       !.health_status = health_status,
                                       !.stamp = IF timestamp.some THEN timestamp
                                                 ELSE At(clock),
                                       !.reads = 1, !.given = timestamp]]
    /\ UNCHANGED <<agent_inboxes, clock, uuid_next, simulate_failure, lookup_patched,
                   published, ingestion, mgmt, mgmt_update, client_reg, http, mgmt_delete,
                   inboxes, inbox_call,
                   mgmt_get, client_call,
                   metrics, timed, pool>>

\* report_agent_health up to the await of update_agent_mapping: the validation of
\* the status, the lookup, and update_data with `health_data.timestamp or now`.
\* reads and writes count the calls of cams_client the report has made.
ReportAgentHealthLookup(h, address, status, timestamp) ==
    /\ health[h].pc # "update"
    /\ LET health_status == Upper(status)
           found == RepoGet(agent_inboxes, address).found
       IN  health' = [health EXCEPT ![h] =
               IF health_status \notin {"HEALTHY", "UNHEALTHY"}
               THEN [IdleHealth EXCEPT !.pc = "done", !.address = address,
                                       !.health_status = health_status, !.code = 400]
               ELSE IF ~found
               THEN [IdleHealth EXCEPT !.pc = "done", !.address = address,
                                       !.health_status = health_status, !.code = 404,
                                       !.reads = 1]
               ELSE [IdleHealth EXCEPT !.pc = "update", !.address = address,
                                       !.health_status = health_status,
                                       !.stamp = IF timestamp.some THEN timestamp
                                                 ELSE At(clock),
                                       !.reads = 1, !.given = timestamp]]
    /\ UNCHANGED <<agent_inboxes, clock, uuid_next, simulate_failure, lookup_patched,
                   published, ingestion, mgmt, mgmt_update, client_reg, http, mgmt_delete,
                   inboxes, inbox_call,
                   mgmt_get, client_call,
                   metrics, timed, pool>>

\* the awaited cams_client.update_agent_mapping(**update_data) and the response:
\* the wrapper calls CAMSClient.update_agent_mapping_details, whose return value
\* (None when no row matched) the handler does not look at
ReportAgentHealthUpdate(h) ==
    /\ health[h].pc = "update"
    /\ LET r == RepoUpdate(agent_inboxes, health[h].address, "agent_health_check",
                           HealthUpdateFields(health[h].health_status, health[h].stamp),
                           clock)
           exc == ClientUpdateRaises(r.exc)
       IN  /\ agent_inboxes' = r.tbl
           /\ health' = [health EXCEPT ![h].pc = "done",
                                       ![h].code = IF exc = "" THEN 200 ELSE 500,
                                       ![h].row_updated = (r.exc = ""),
                                       ![h].writes = 1, ![h].raised = exc,
                                       ![h].detail = IF exc = "" THEN ""
                                                     ELSE HandlerErrorDetail(exc)]
    /\ UNCHANGED <<clock, uuid_next, simulate_failure, lookup_patched, published, ingestion,
                   mgmt, mgmt_update, client_reg, http, mgmt_delete, inboxes, inbox_call,
                   mgmt_get, client_call,
                   metrics, timed, pool>>

-----------------------------------------------------------------------------
\* The management API (routers/agent_management.py). Its cams_client is a
\* CAMSClient of router/cams_client.py.

MgmtRequests == {"m1", "m2"}

IdleMgmt == [inbox_name |-> "", code |-> 0, address |-> <<>>, pc |-> "idle"]

\* the keyword arguments of the handler's call of cams_client.register_agent_mapping
MgmtRegisterKwargs ==
    {"ai_agent_address", "inbox_destination_type", "inbox_name", "description",
     "owner_team", "status", "updated_by"}

\* a call with a keyword argument the function does not take raises TypeError
CallRaises(kwargs, params) == IF kwargs \ params # {} THEN "TypeError" ELSE ""

\* register_agent_mapping (POST) up to the await of the insert: the existence check
MgmtRegisterCheck(m, address, inbox_name) ==
    /\ mgmt[m].pc = "idle"
    /\ mgmt' = [mgmt EXCEPT ![m] =
           IF RepoGet(agent_inboxes, address).found
           THEN [inbox_name |-> inbox_name, code |-> 409, address |-> address, pc |-> "done"]
           ELSE [inbox_name |-> inbox_name, code |-> 0, address |-> address, pc |-> "insert"]]
    /\ UNCHANGED <<agent_inboxes, clock, uuid_next, simulate_failure, lookup_patched,
                   published, ingestion, health, mgmt_update, client_reg, http, mgmt_delete,
                   inboxes, inbox_call,
                   mgmt_get, client_call,
                   metrics, timed, pool>>

\* register_agent_mapping (POST) from the call of cams_client.register_agent_mapping
\* on: `except Exception` turns whatever the call raises into 500
MgmtRegisterInsert(m) ==
    /\ mgmt[m].pc = "insert"
    /\ LET call_exc == CallRaises(MgmtRegisterKwargs, ClientRegisterParams)
           r == IF call_exc # "" THEN [tbl |-> agent_inboxes, exc |-> call_exc]
                ELSE RepoRegister(agent_inboxes, mgmt[m].address, "GCP_PUBSUB_TOPIC",
                                  mgmt[m].inbox_name, "agent_management_api", "ACTIVE",
                                  clock)
       IN  /\ agent_inboxes' = r.tbl
           /\ mgmt' = [mgmt EXCEPT ![m].pc = "done",
                                   ![m].code = IF r.exc = "" THEN 201 ELSE 500]
    /\ UNCHANGED <<clock, uuid_next, simulate_failure, lookup_patched, published, ingestion,
                   health, mgmt_update, client_reg, http, mgmt_delete, inboxes, inbox_call,
                   mgmt_get, client_call,
                   metrics, timed, pool>>

IdleMgmtUpdate == [status |-> "", code |-> 0, address |-> <<>>, called |-> FALSE]

\* AgentMappingUpdate.validate_status
StatusRejected(status) == status # "" /\ Upper(status) \notin {"ACTIVE", "INACTIVE"}

\* update_agent_mapping (PUT) with a body that sets status or nothing ("").
\* The existence check is the only await that completes: with a status the handler
\* goes on to cams_client.update_agent_mapping, a method CAMSClient does not have
\* (AttributeError); with no field it builds AgentMappingResponse from the client's
\* camelCase dict, which lacks the model's required fields (ValidationError). Both
\* end in `except Exception`.
MgmtUpdateAgentMapping(address, status) ==
    LET found == RepoGet(agent_inboxes, address).found
        has_method == "update_agent_mapping" \in ClientMethods
        updates == ~StatusRejected(status) /\ found /\ status # "" /\ has_method
        r == IF updates
             THEN RepoUpdate(agent_inboxes, address, "agent_management_api/update",
                             [status |-> status], clock)
             ELSE [tbl |-> agent_inboxes, exc |-> ""]
    IN  /\ agent_inboxes' = r.tbl
        /\ mgmt_update' =
               [status |-> status, code |-> IF StatusRejected(status) THEN 422
                         ELSE IF ~found THEN 404
                         ELSE IF status = "" THEN 500
                         ELSE IF ~has_method THEN 500
                         ELSE IF ClientUpdateRaises(r.exc) # "" THEN 500
                         ELSE IF r.exc # "" THEN 500
                         ELSE 200, address |-> address,
                called |-> TRUE]
        /\ UNCHANGED <<clock, uuid_next, simulate_failure, lookup_patched, published,
                       ingestion, health, mgmt, client_reg, http, mgmt_delete, inboxes,
                       inbox_call,
                   mgmt_get, client_call,
                   metrics, timed, pool>>

\* CAMSClient.delete_agent_mapping: True, or False when the repository raised
\* AgentNotFoundError; any other CAMSRepositoryError is raised again
ClientDeleteReturns(repo_exc) == repo_exc = ""
ClientDeleteRaises(repo_exc) == IF repo_exc = "AgentNotFoundError" THEN "" ELSE repo_exc

DeleteRequests == {"d1", "d2"}

IdleMgmtDelete ==
    [code |-> 0, address |-> <<>>, pc |-> "idle", raised |-> "", detail |-> ""]

\* delete_agent_mapping (DELETE) up to the await of the delete: the existence check
MgmtDeleteCheck(d, address) ==
    /\ mgmt_delete[d].pc # "delete"
    /\ mgmt_delete' = [mgmt_delete EXCEPT ![d] =
           IF RepoGet(agent_inboxes, address).found
           THEN [IdleMgmtDelete EXCEPT !.address = address, !.pc = "delete"]
           ELSE [IdleMgmtDelete EXCEPT !.address = address, !.pc = "done",
                                       !.code = 404]]
    /\ UNCHANGED <<agent_inboxes, clock, uuid_next, simulate_failure, lookup_patched,
                   published, ingestion, health, mgmt, mgmt_update, client_reg, http,
                   inboxes, inbox_call,
                   mgmt_get, client_call,
                   metrics, timed, pool>>

\* delete_agent_mapping (DELETE) from the awaited cams_client.delete_agent_mapping
\* on: False from the client raises HTTPException(500), which `except
\* HTTPException` raises again; any other exception becomes 500 as well
MgmtDeleteCall(d) ==
    /\ mgmt_delete[d].pc = "delete"
    /\ LET r == RepoDelete(agent_inboxes, mgmt_delete[d].address)
           success == ClientDeleteReturns(r.exc)
       IN  /\ agent_inboxes' = r.tbl
           /\ mgmt_delete' = [mgmt_delete EXCEPT
                  ![d].pc = "done",
                  ![d].code = IF ClientDeleteRaises(r.exc) # "" THEN 500
                              ELSE IF ~success THEN 500
                              ELSE 204]
    /\ UNCHANGED <<clock, uuid_next, simulate_failure, lookup_patched, published, ingestion,
                   health, mgmt, mgmt_update, client_reg, http, inboxes, inbox_call,
                   mgmt_get, client_call,
                   metrics, timed, pool>>

-----------------------------------------------------------------------------
\* The in-memory inbox service (routers/agent_inboxes.py). Its methods have no
\* await inside, so each call runs as one step.

InboxData(dtype, name, status, by) ==
    [status |-> status, inbox_destination_type |-> dtype, inbox_name |-> name,
     updated_by |-> by, ai_agent_address |-> <<>>, registration_timestamp |-> NoTime,
     last_updated_timestamp |-> NoTime]

\* given: the names of the fields an update_inbox call was given
IdleInboxCall ==
    [dtype |-> "", inbox_name |-> "", code |-> 0, address |-> <<>>, given |-> {},
     op |-> ""]

InboxCall(op, address, code, dtype, name) ==
    [dtype |-> dtype, inbox_name |-> name, code |-> code, address |-> address, given |-> {},
     op |-> op]

\* AgentInboxService.create_inbox
CreateInbox(address, dtype, name) ==
    /\ IF address \in DOMAIN inboxes
       THEN /\ inboxes' = inboxes
            /\ inbox_call' = InboxCall("create_inbox", address, 409, dtype, name)
       ELSE /\ inboxes' = [a \in DOMAIN inboxes \cup {address} |->
                             IF a = address
                             THEN [InboxData(dtype, name, "ACTIVE", "system") EXCEPT
                                      !.ai_agent_address = address,
                                      !.registration_timestamp = At(clock),
                                      !.last_updated_timestamp = At(clock)]
                             ELSE inboxes[a]]
            /\ inbox_call' = InboxCall("create_inbox", address, 201, dtype, name)
    /\ UNCHANGED <<agent_inboxes, clock, uuid_next, simulate_failure, lookup_patched,
                   published, ingestion, health, mgmt, mgmt_update, client_reg, http,
                   mgmt_delete,
                   mgmt_get, client_call,
                   metrics, timed, pool>>

\* AgentInboxService.get_inbox
GetInbox(boxes, address) ==
    IF address \in DOMAIN boxes
    THEN [ai_agent_address |-> address, found |-> TRUE, data |-> boxes[address]]
    ELSE [ai_agent_address |-> address, found |-> FALSE,
          data |-> InboxData("", "", "", "")]

\* the fields update_inbox never assigns
ProtectedInboxFields == {"ai_agent_address", "registration_timestamp"}

\* update_inbox as it would be if it assigned every field of updates the inbox holds
UpdateInboxFieldsUnprotected(address, updates) ==
    /\ IF address \notin DOMAIN inboxes
       THEN /\ inboxes' = inboxes
            /\ inbox_call' = [InboxCall("update_inbox", address, 404, "", "") EXCEPT
                                 !.given = DOMAIN updates]
       ELSE /\ inboxes' = [inboxes EXCEPT ![address] =
                  [f \in DOMAIN inboxes[address] |->
                     IF f = "updated_by" THEN "system"
                     ELSE IF f = "last_updated_timestamp" THEN At(clock)
                     ELSE IF f \in DOMAIN updates THEN updates[f]
                     ELSE inboxes[address][f]]]
            /\ inbox_call' = [InboxCall("update_inbox", address, 200, "", "") EXCEPT
                                 !.given = DOMAIN updates]
    /\ UNCHANGED <<agent_inboxes, clock, uuid_next, simulate_failure, lookup_patched,
                   published, ingestion, health, mgmt, mgmt_update, client_reg, http,
                   mgmt_delete, mgmt_get, client_call,
                   metrics, timed, pool>>

\* update_inbox as it would be if it set last_updated_timestamp and updated_by
\* before the loop over updates, so that a value given for them stays
UpdateInboxFieldsStampFirst(address, updates) ==
    /\ IF address \notin DOMAIN inboxes
       THEN /\ inboxes' = inboxes
            /\ inbox_call' = [InboxCall("update_inbox", address, 404, "", "") EXCEPT
                                 !.given = DOMAIN updates]
       ELSE /\ inboxes' = [inboxes EXCEPT ![address] =
                  [f \in DOMAIN inboxes[address] |->
                     IF f \in DOMAIN updates /\ f \notin ProtectedInboxFields
                     THEN updates[f]
                     ELSE IF f = "updated_by" THEN "system"
                     ELSE IF f = "last_updated_timestamp" THEN At(clock)
                     ELSE inboxes[address][f]]]
            /\ inbox_call' = [InboxCall("update_inbox", address, 200, "", "") EXCEPT
                                 !.given = DOMAIN updates]
    /\ UNCHANGED <<agent_inboxes, clock, uuid_next, simulate_failure, lookup_patched,
                   published, ingestion, health, mgmt, mgmt_update, client_reg, http,
                   mgmt_delete, mgmt_get, client_call,
                   metrics, timed, pool>>

\* AgentInboxService.update_inbox: every field of updates that the inbox holds,
\* except the address and the registration time, takes the value given; then
\* last_updated_timestamp and updated_by are set
UpdateInboxFields(address, updates) ==
    /\ IF address \notin DOMAIN inboxes
       THEN /\ inboxes' = inboxes
            /\ inbox_call' = [InboxCall("update_inbox", address, 404, "", "") EXCEPT
                                 !.given = DOMAIN updates]
       ELSE /\ inboxes' = [inboxes EXCEPT ![address] =
                  [f \in DOMAIN inboxes[address] |->
                     IF f = "updated_by" THEN "system"
                     ELSE IF f = "last_updated_timestamp" THEN At(clock)
                     ELSE IF f \in DOMAIN updates /\ f \notin ProtectedInboxFields
                          THEN updates[f]
                     ELSE inboxes[address][f]]]
            /\ inbox_call' = [InboxCall("update_inbox", address, 200, "", "") EXCEPT
                                 !.given = DOMAIN updates]
    /\ UNCHANGED <<agent_inboxes, clock, uuid_next, simulate_failure, lookup_patched,
                   published, ingestion, health, mgmt, mgmt_update, client_reg, http,
                   mgmt_delete, mgmt_get, client_call,
                   metrics, timed, pool>>

\* AgentInboxService.update_inbox with updates = {"status": status}
UpdateInbox(address, status) == UpdateInboxFields(address, [status |-> status])

\* AgentInboxService.delete_inbox
DeleteInbox(address) ==
    /\ IF address \notin DOMAIN inboxes
       THEN /\ inboxes' = inboxes
            /\ inbox_call' = InboxCall("delete_inbox", address, 404, "", "")
       ELSE /\ inboxes' = [a \in DOMAIN inboxes \ {address} |-> inboxes[a]]
            /\ inbox_call' = InboxCall("delete_inbox", address, 204, "", "")
    /\ UNCHANGED <<agent_inboxes, clock, uuid_next, simulate_failure, lookup_patched,
                   published, ingestion, health, mgmt, mgmt_update, client_reg, http,
                   mgmt_delete,
                   mgmt_get, client_call,
                   metrics, timed, pool>>

-----------------------------------------------------------------------------
\* Failures of the store. A query that fails raises asyncpg.PostgresError, which
\* _fetchrow turns into CAMSRepositoryError; a connection that cannot be had
\* (get_connection_pool, pool.acquire) raises outside the try of _fetchrow and
\* leaves the repository as it is (OSError). CAMSClient and CAMSClientWrapper log
\* what the repository raises and raise it again.

StoreFailures == {"PostgresError", "OSError"}

\* report_agent_health when the awaited cams_client.get_agent_mapping raises
ReportAgentHealthLookupFails(h, address, status, dbexc) ==
    /\ health[h].pc # "update"
    /\ Upper(status) \in {"HEALTHY", "UNHEALTHY"}
    /\ LET exc == FetchrowRaises(dbexc)
       IN  health' = [health EXCEPT ![h] =
               [IdleHealth EXCEPT !.pc = "done", !.address = address,
                                  !.health_status = Upper(status), !.code = 500,
                                  !.reads = 1, !.raised = exc,
                                  !.detail = HandlerErrorDetail(exc)]]
    /\ UNCHANGED <<agent_inboxes, clock, uuid_next, simulate_failure, lookup_patched,
                   published, ingestion, mgmt, mgmt_update, client_reg, http,
                   mgmt_delete, inboxes, inbox_call, mgmt_get, client_call,
                   metrics, timed, pool>>

\* report_agent_health when the awaited cams_client.update_agent_mapping raises
ReportAgentHealthUpdateFails(h, dbexc) ==
    /\ health[h].pc = "update"
    /\ LET exc == FetchrowRaises(dbexc)
       IN  health' = [health EXCEPT ![h].pc = "done", ![h].code = 500,
                                    ![h].writes = 1, ![h].raised = exc,
                                    ![h].detail = HandlerErrorDetail(exc)]
    /\ UNCHANGED <<agent_inboxes, clock, uuid_next, simulate_failure, lookup_patched,
                   published, ingestion, mgmt, mgmt_update, client_reg, http,
                   mgmt_delete, inboxes, inbox_call, mgmt_get, client_call,
                   metrics, timed, pool>>

\* delete_agent_mapping (DELETE) when the awaited cams_client.get_agent_mapping
\* raises
MgmtDeleteCheckFails(d, address, dbexc) ==
    /\ mgmt_delete[d].pc # "delete"
    /\ LET exc == FetchrowRaises(dbexc)
       IN  mgmt_delete' = [mgmt_delete EXCEPT ![d] =
               [IdleMgmtDelete EXCEPT !.address = address, !.pc = "done", !.code = 500,
                                      !.raised = exc,
                                      !.detail = HandlerErrorDetail(exc)]]
    /\ UNCHANGED <<agent_inboxes, clock, uuid_next, simulate_failure, lookup_patched,
                   published, ingestion, health, mgmt, mgmt_update, client_reg, http,
                   inboxes, inbox_call, mgmt_get, client_call,
                   metrics, timed, pool>>

\* delete_agent_mapping (DELETE) when the awaited cams_client.delete_agent_mapping
\* raises
MgmtDeleteCallFails(d, dbexc) ==
    /\ mgmt_delete[d].pc = "delete"
    /\ LET exc == ClientDeleteRaises(FetchrowRaises(dbexc))
       IN  mgmt_delete' = [mgmt_delete EXCEPT ![d].pc = "done", ![d].code = 500,
                                              ![d].raised = exc,
                                              ![d].detail = HandlerErrorDetail(exc)]
    /\ UNCHANGED <<agent_inboxes, clock, uuid_next, simulate_failure, lookup_patched,
                   published, ingestion, health, mgmt, mgmt_update, client_reg, http,
                   inboxes, inbox_call, mgmt_get, client_call,
                   metrics, timed, pool>>

IdleMgmtGet == [code |-> 0, address |-> <<>>, raised |-> "", detail |-> ""]

\* retrieve_agent_mapping (GET): 404 when the client returns None; otherwise
\* AgentMappingResponse(**mapping) gets the client's camelCase dict, which lacks
\* the model's required fields (ValidationError), and `except Exception` answers
\* 500
MgmtRetrieve(address) ==
    /\ mgmt_get' =
           IF RepoGet(agent_inboxes, address).found
           THEN [code |-> 500, address |-> address, raised |-> "",
                 detail |-> HandlerErrorDetail("ValidationError")]
           ELSE [code |-> 404, address |-> address, raised |-> "", detail |-> "not found"]
    /\ UNCHANGED <<agent_inboxes, clock, uuid_next, simulate_failure, lookup_patched,
                   published, ingestion, health, mgmt, mgmt_update, client_reg, http,
                   mgmt_delete, inboxes, inbox_call, client_call,
                   metrics, timed, pool>>

\* retrieve_agent_mapping (GET) when the awaited cams_client.get_agent_mapping
\* raises
MgmtRetrieveFails(address, dbexc) ==
    /\ LET exc == FetchrowRaises(dbexc)
       IN  mgmt_get' = [code |-> 500, address |-> address, raised |-> exc,
                        detail |-> HandlerErrorDetail(exc)]
    /\ UNCHANGED <<agent_inboxes, clock, uuid_next, simulate_failure, lookup_patched,
                   published, ingestion, health, mgmt, mgmt_update, client_reg, http,
                   mgmt_delete, inboxes, inbox_call, client_call,
                   metrics, timed, pool>>

-----------------------------------------------------------------------------
\* Direct calls of the directory clients with their results. store is what the
\* store did ("row", "no row" or "failed"), repo_exc what left the repository
\* function, exc what left the client function, result what it returned.

IdleClientCall ==
    [exc |-> "", address |-> <<>>, repo_exc |-> "", fn |-> "", store |-> "",
     result |-> ""]

NoFailure == ""

\* what the store did for a statement on addr
StoreDid(tbl, addr, fail) ==
    IF fail # NoFailure THEN "failed" ELSE IF addr \in DOMAIN tbl THEN "row" ELSE "no row"

\* the repository function's result when the store may fail: a failure leaves the
\* table as it was
RepoResult(tbl, r, fail) ==
    IF fail # NoFailure THEN [tbl |-> tbl, exc |-> FetchrowRaises(fail)] ELSE r

\* CAMSClient.update_agent_status: bool(result), False for AgentNotFoundError
CallUpdateStatus(address, new_status, fail) ==
    /\ LET r == RepoResult(agent_inboxes,
                           RepoUpdate(agent_inboxes, address, "router_service",
                                      [status |-> new_status], clock), fail)
           exc == ClientUpdateRaises(r.exc)
       IN  /\ agent_inboxes' = r.tbl
           /\ client_call' =
                  [exc |-> exc, address |-> address,
                   repo_exc |-> r.exc,
                   fn |-> "update_agent_status",
                   store |-> StoreDid(agent_inboxes, address, fail), result |-> IF r.exc = "" THEN "True"
                              ELSE IF exc = "" THEN "False" ELSE ""]
    /\ UNCHANGED <<clock, uuid_next, simulate_failure, lookup_patched, published, ingestion,
                   health, mgmt, mgmt_update, client_reg, http, mgmt_delete, inboxes,
                   inbox_call, mgmt_get,
                   metrics, timed, pool>>

\* CAMSClient.update_agent_mapping_details: the row under camelCase keys, None
\* for AgentNotFoundError
CallUpdateDetails(address, fields, fail) ==
    /\ LET r == RepoResult(agent_inboxes,
                           RepoUpdate(agent_inboxes, address, "router_service", fields,
                                      clock), fail)
           exc == ClientUpdateRaises(r.exc)
       IN  /\ agent_inboxes' = r.tbl
           /\ client_call' =
                  [exc |-> exc, address |-> address,
                   repo_exc |-> r.exc,
                   fn |-> "update_agent_mapping_details",
                   store |-> StoreDid(agent_inboxes, address, fail), result |-> IF r.exc = "" THEN "mapping"
                              ELSE IF exc = "" THEN "None" ELSE ""]
    /\ UNCHANGED <<clock, uuid_next, simulate_failure, lookup_patched, published, ingestion,
                   health, mgmt, mgmt_update, client_reg, http, mgmt_delete, inboxes,
                   inbox_call, mgmt_get,
                   metrics, timed, pool>>

\* CAMSClient.delete_agent_mapping: True, False for AgentNotFoundError
CallDelete(address, fail) ==
    /\ LET r == RepoResult(agent_inboxes, RepoDelete(agent_inboxes, address), fail)
           exc == ClientDeleteRaises(r.exc)
       IN  /\ agent_inboxes' = r.tbl
           /\ client_call' =
                  [exc |-> exc, address |-> address,
                   repo_exc |-> r.exc,
                   fn |-> "delete_agent_mapping",
                   store |-> StoreDid(agent_inboxes, address, fail), result |-> IF exc # "" THEN ""
                              ELSE IF ClientDeleteReturns(r.exc) THEN "True" ELSE "False"]
    /\ UNCHANGED <<clock, uuid_next, simulate_failure, lookup_patched, published, ingestion,
                   health, mgmt, mgmt_update, client_reg, http, mgmt_delete, inboxes,
                   inbox_call, mgmt_get,
                   metrics, timed, pool>>

\* CAMSClient.get_agent_mapping: the row under camelCase keys, None when there is
\* no row; what the repository raises is logged and raised again
CallGet(address, fail) ==
    /\ LET repo_exc == IF fail # NoFailure THEN FetchrowRaises(fail) ELSE ""
       IN  client_call' =
               [exc |-> repo_exc, address |-> address,
                repo_exc |-> repo_exc,
                fn |-> "get_agent_mapping",
                store |-> StoreDid(agent_inboxes, address, fail), result |-> IF repo_exc # "" THEN ""
                           ELSE IF ClientGet(agent_inboxes, address).found THEN "mapping"
                           ELSE "None"]
    /\ UNCHANGED <<agent_inboxes, clock, uuid_next, simulate_failure, lookup_patched,
                   published, ingestion, health, mgmt, mgmt_update, client_reg, http,
                   mgmt_delete, inboxes, inbox_call, mgmt_get,
                   metrics, timed, pool>>

\* getAgentMapping as it would be if it raised again what the lookup raises
LegacyGetReraising(lookup_exc, found) ==
    IF lookup_exc # "" THEN [exc |-> lookup_exc, result |-> ""]
    ELSE [exc |-> "", result |-> IF found THEN "mapping" ELSE "None"]

\* getAgentMapping: asyncio.run of the awaited lookup; `except Exception` logs
\* and returns None
LegacyGet(lookup_exc, found) ==
    IF lookup_exc # "" THEN [exc |-> "", result |-> "None"]
    ELSE [exc |-> "", result |-> IF found THEN "mapping" ELSE "None"]

\* getAgentMapping(address)
CallLegacyGet(address, fail) ==
    /\ LET repo_exc == IF fail # NoFailure THEN FetchrowRaises(fail) ELSE ""
           g == LegacyGet(repo_exc, ClientGet(agent_inboxes, address).found)
       IN  client_call' =
               [exc |-> g.exc, address |-> address,
                repo_exc |-> repo_exc,
                fn |-> "getAgentMapping", store |-> StoreDid(agent_inboxes, address, fail), result |-> g.result]
    /\ UNCHANGED <<agent_inboxes, clock, uuid_next, simulate_failure, lookup_patched,
                   published, ingestion, health, mgmt, mgmt_update, client_reg, http,
                   mgmt_delete, inboxes, inbox_call, mgmt_get,
                   metrics, timed, pool>>

-----------------------------------------------------------------------------
\* The retrying HTTP directory client (cams/cams_api_async.py).

\* CAMSConfig.retry_attempts
RetryAttempts == 3

\* the names the module cams_api_async binds by its imports (lines 4-9): asyncio
\* is not among them
ModuleGlobals ==
    {"logging", "Dict", "Any", "Optional", "BaseModel", "Field", "datetime", "timezone",
     "httpx", "json"}

\* evaluating a global name the module does not bind raises NameError
NameRaises(name) == IF name \notin ModuleGlobals THEN "NameError" ELSE ""

HttpCallers == {"r1", "r2"}
HttpOps == {"get_agent_mapping", "delete_agent_mapping", "register_agent_mapping",
            "health_check"}

\* what one `await self.client.request(...)`, raise_for_status() and json() give:
\* a 2xx response, an HTTPStatusError with its status code, a transport error
\* (httpx.RequestError) or a body that is not JSON (json.JSONDecodeError)
HttpOutcomes ==
    {[code |-> 200, kind |-> "ok"],
     [code |-> 400, kind |-> "status"], [code |-> 404, kind |-> "status"],
     [code |-> 500, kind |-> "status"], [code |-> 503, kind |-> "status"],
     [code |-> 0, kind |-> "transport"], [code |-> 200, kind |-> "decode"]}

\* the test as it would be if only 404 were raised at once
RaisedAtOnceOnlyNotFound(o) == o.kind = "status" /\ o.code = 404

\* `e.response.status_code < 500`: raised at once, not retried
RaisedAtOnce(o) == o.kind = "status" /\ o.code < 500

RECURSIVE Pow2(_)
Pow2(n) == IF n = 0 THEN 1 ELSE 2 * Pow2(n - 1)

NoOutcome == [code |-> 0, kind |-> ""]

IdleHttp ==
    [exc |-> NoOutcome, kind |-> "", pc |-> "idle", op |-> "", attempt |-> 0,
     outcomes |-> <<>>, backoffs |-> <<>>, last_error |-> NoOutcome, value |-> ""]

\* what the operation makes of an exception leaving _request
HttpOpResult(op, e) ==
    IF op = "health_check" THEN [exc |-> NoOutcome, kind |-> "return", value |-> "unhealthy"]
    ELSE IF op \in {"get_agent_mapping", "delete_agent_mapping"}
            /\ e.kind = "status" /\ e.code = 404
    THEN [exc |-> NoOutcome, kind |-> "return", value |-> "None"]
    ELSE [exc |-> e, kind |-> "raise", value |-> ""]

\* an operation of the client calls _request
HttpStart(r, op) ==
    /\ http[r].pc # "attempt"
    /\ http' = [http EXCEPT ![r] = [IdleHttp EXCEPT !.pc = "attempt", !.op = op]]
    /\ UNCHANGED <<agent_inboxes, clock, uuid_next, simulate_failure, lookup_patched,
                   published, ingestion, health, mgmt, mgmt_update, client_reg, mgmt_delete,
                   inboxes, inbox_call,
                   mgmt_get, client_call,
                   metrics, timed, pool>>

\* one iteration of the loop of _request: the awaited request ends with outcome o;
\* success returns, a status below 500 is raised, anything else is kept as
\* last_error and, unless this was the last attempt, `await asyncio.sleep(2 **
\* attempt)` is evaluated before the next iteration
HttpAttempt(r, o) ==
    /\ http[r].pc = "attempt"
    /\ LET h == [http[r] EXCEPT !.outcomes = Append(@, o)]
           finish(res) == [h EXCEPT !.pc = "done", !.kind = res.kind,
                                    !.value = res.value, !.exc = res.exc]
       IN  http' = [http EXCEPT ![r] =
               IF o.kind = "ok"
               THEN finish([exc |-> NoOutcome, kind |-> "return", value |-> "json"])
               ELSE IF RaisedAtOnce(o)
               THEN finish(HttpOpResult(h.op, o))
               ELSE IF h.attempt < RetryAttempts - 1
               THEN IF NameRaises("asyncio") # ""
                    THEN finish(HttpOpResult(h.op, [code |-> 0,
                                                   kind |-> NameRaises("asyncio")]))
                    ELSE [h EXCEPT !.last_error = o, !.attempt = @ + 1,
                                   !.backoffs = Append(@, Pow2(h.attempt))]
               ELSE finish(HttpOpResult(h.op, o))]
    /\ UNCHANGED <<agent_inboxes, clock, uuid_next, simulate_failure, lookup_patched,
                   published, ingestion, health, mgmt, mgmt_update, client_reg, mgmt_delete,
                   inboxes, inbox_call,
                   mgmt_get, client_call,
                   metrics, timed, pool>>

-----------------------------------------------------------------------------
\* MetricsCollector and timed_operation (message_router_service.py). The callers
\* are coroutines of one event loop: a caller runs from one await to the next
\* without another caller in between.

TimedCallers == {"q1", "q2"}
\* invocations of the wrapped operation one caller makes
MaxInvocations == 2

\* how the wrapped operation ends: it returns, it raises an Exception, or it
\* raises a BaseException that is no Exception (asyncio.CancelledError,
\* KeyboardInterrupt, SystemExit)
OperationEnds == {"return", "Exception", "BaseException"}

\* the key of a metric: its name and the frozenset of its labels
MetricKey(name, status) == [name |-> name, status |-> status]

\* increment_counter as it would be if it stored value without reading the
\* counter
IncrementCounterOverwrites(counters, key, value) ==
    [k \in DOMAIN counters \cup {key} |-> IF k = key THEN value ELSE counters[k]]

\* MetricsCollector.increment_counter: `_counters[key] = _counters.get(key, 0) + value`
IncrementCounter(counters, key, value) ==
    [k \in DOMAIN counters \cup {key} |->
        IF k = key
        THEN (IF key \in DOMAIN counters THEN counters[key] ELSE 0) + value
        ELSE counters[k]]

\* MetricsCollector.record_latency: the list of the key, made when the key is new,
\* gets seconds appended
RecordLatency(histograms, key, seconds) ==
    [k \in DOMAIN histograms \cup {key} |->
        IF k = key
        THEN Append(IF key \in DOMAIN histograms THEN histograms[key] ELSE <<>>, seconds)
        ELSE histograms[k]]

\* the label the wrapper gives the sample: status is 'success' when the try
\* block is entered and `except Exception` sets it to 'error'
TimedStatus(ends) == IF ends = "Exception" THEN "error" ELSE "success"

\* what the wrapper hands to its caller: the result, or the exception raised again
TimedOutcome(ends) ==
    IF ends = "return" THEN [exc |-> "", kind |-> "return", value |-> "result"]
    ELSE [exc |-> ends, kind |-> "raise", value |-> ""]

\* the counter the wrapped handler increments before it ends (report_agent_health:
\* agent_health_reported with status success, or with status error in its except
\* blocks); an exception its except blocks do not catch increments nothing
HandlerCounter(ends) ==
    IF ends = "return" THEN {MetricKey("agent_health_reported", "success")}
    ELSE IF ends = "Exception" THEN {MetricKey("agent_health_reported", "error")}
    ELSE {}

CounterKeys ==
    {MetricKey("agent_health_reported", "success"),
     MetricKey("agent_health_reported", "error")}

\* added and recorded: the increments and the samples the caller itself has made
IdleTimed ==
    [status |-> "", pc |-> "idle", ends |-> "", calls |-> 0, start_time |-> 0,
     outcome |-> [exc |-> "", kind |-> "", value |-> ""],
     added |-> [k \in CounterKeys |-> 0], recorded |-> <<>>]

\* async_wrapper is called: start_time is taken and the wrapped operation runs to
\* its first await
TimedStart(q) ==
    /\ timed[q].pc = "idle"
    /\ timed[q].calls < MaxInvocations
    /\ timed' = [timed EXCEPT ![q].pc = "awaiting", ![q].calls = @ + 1,
                              ![q].start_time = clock]
    /\ UNCHANGED <<agent_inboxes, clock, uuid_next, simulate_failure, lookup_patched,
                   published, ingestion, health, mgmt, mgmt_update, client_reg, http,
                   mgmt_delete, inboxes, inbox_call, mgmt_get, client_call, metrics, pool>>

\* the wrapped operation resumes after its last await and ends; the finally block
\* of the wrapper records the latency under the status
TimedEnd(q, ends) ==
    /\ timed[q].pc = "awaiting"
    /\ LET status == TimedStatus(ends)
           key == MetricKey("agent_health_check_duration_seconds", status)
           duration == clock - timed[q].start_time
           counters == IF HandlerCounter(ends) = {} THEN metrics.counters
                       ELSE IncrementCounter(metrics.counters,
                                             CHOOSE k \in HandlerCounter(ends) : TRUE, 1)
       IN  /\ metrics' = [counters |-> counters,
                          histograms |-> RecordLatency(metrics.histograms, key, duration)]
           /\ timed' = [timed EXCEPT
                  ![q].pc = "idle", ![q].ends = ends, ![q].status = status,
                  ![q].outcome = TimedOutcome(ends),
                  ![q].added = [k \in CounterKeys |->
                                  IF k \in HandlerCounter(ends) THEN @[k] + 1 ELSE @[k]],
                  ![q].recorded = Append(@, [status |-> status, seconds |-> duration])]
    /\ UNCHANGED <<agent_inboxes, clock, uuid_next, simulate_failure, lookup_patched,
                   published, ingestion, health, mgmt, mgmt_update, client_reg, http,
                   mgmt_delete, inboxes, inbox_call, mgmt_get, client_call, pool>>

-----------------------------------------------------------------------------
\* The connection pool of the repository (cams_repository.py).

PoolCallers == {"p1", "p2", "p3"}
\* max_size of a pool, scaled down
PoolMaxSize == 2
\* pools that get created
MaxPools == 3

NoPool == 0

\* global: _pool; created: the pools asyncpg.create_pool has made, 1..created;
\* closing: the pool close_pool is closing; out: connections checked out, by pool
IdlePool ==
    [out |-> [p \in 1..MaxPools |-> 0], global |-> NoPool, created |-> 0, started |-> 0, closing |-> NoPool,
     closed |-> {},
     callers |-> [c \in PoolCallers |-> [exc |-> "", pc |-> "idle", mine |-> NoPool]]]

\* _execute / _fetchrow / _fetch call get_connection_pool: `if _pool is None`
\* starts asyncpg.create_pool and suspends; otherwise _pool is returned at once
OperationStart(c) ==
    /\ pool.callers[c].pc = "idle"
    /\ IF pool.global = NoPool
       THEN /\ pool.started < MaxPools
            /\ pool' = [pool EXCEPT !.started = @ + 1,
                                    !.callers[c] = [exc |-> "", pc |-> "creating",
                                                    mine |-> NoPool]]
       ELSE pool' = [pool EXCEPT !.callers[c] = [exc |-> "", pc |-> "acquiring",
                                                 mine |-> pool.global]]
    /\ UNCHANGED <<agent_inboxes, clock, uuid_next, simulate_failure, lookup_patched,
                   published, ingestion, health, mgmt, mgmt_update, client_reg, http,
                   mgmt_delete, inboxes, inbox_call, mgmt_get, client_call, metrics, timed>>

\* `_pool = await asyncpg.create_pool(**db_config)` resumes: the new pool is
\* assigned to _pool, whatever _pool holds by now, and returned
PoolCreated(c) ==
    /\ pool.callers[c].pc = "creating"
    /\ pool' = [pool EXCEPT !.created = @ + 1, !.global = pool.created + 1,
                            !.callers[c].pc = "acquiring",
                            !.callers[c].mine = pool.created + 1]
    /\ UNCHANGED <<agent_inboxes, clock, uuid_next, simulate_failure, lookup_patched,
                   published, ingestion, health, mgmt, mgmt_update, client_reg, http,
                   mgmt_delete, inboxes, inbox_call, mgmt_get, client_call, metrics, timed>>

\* `async with pool.acquire() as conn`: a connection of the caller's pool is
\* checked out once one is free; a pool that is closing or closed raises
\* InterfaceError
Acquire(c) ==
    /\ pool.callers[c].pc = "acquiring"
    /\ LET p == pool.callers[c].mine
       IN  IF p = pool.closing \/ p \in pool.closed
           THEN pool' = [pool EXCEPT !.callers[c].pc = "idle",
                                     !.callers[c].exc = "InterfaceError"]
           ELSE /\ pool.out[p] < PoolMaxSize
                /\ pool' = [pool EXCEPT !.out[p] = @ + 1, !.callers[c].pc = "holding"]
    /\ UNCHANGED <<agent_inboxes, clock, uuid_next, simulate_failure, lookup_patched,
                   published, ingestion, health, mgmt, mgmt_update, client_reg, http,
                   mgmt_delete, inboxes, inbox_call, mgmt_get, client_call, metrics, timed>>

\* the statement ends, with its result or with dbexc raised; leaving the
\* `async with` block releases the connection in both cases
Release(c, dbexc) ==
    /\ pool.callers[c].pc = "holding"
    /\ pool' = [pool EXCEPT !.out[pool.callers[c].mine] = @ - 1,
                            !.callers[c].pc = "idle",
                            !.callers[c].exc = IF dbexc = NoFailure THEN ""
                                               ELSE FetchrowRaises(dbexc)]
    /\ UNCHANGED <<agent_inboxes, clock, uuid_next, simulate_failure, lookup_patched,
                   published, ingestion, health, mgmt, mgmt_update, client_reg, http,
                   mgmt_delete, inboxes, inbox_call, mgmt_get, client_call, metrics, timed>>

\* close_pool: `if _pool is not None` starts `await _pool.close()`
ClosePoolStart ==
    /\ pool.global # NoPool
    /\ pool.closing = NoPool
    /\ pool' = [pool EXCEPT !.closing = pool.global]
    /\ UNCHANGED <<agent_inboxes, clock, uuid_next, simulate_failure, lookup_patched,
                   published, ingestion, health, mgmt, mgmt_update, client_reg, http,
                   mgmt_delete, inboxes, inbox_call, mgmt_get, client_call, metrics, timed>>

\* `await _pool.close()` resumes once every connection of the pool is back;
\* then `_pool = None`
ClosePoolEnd ==
    /\ pool.closing # NoPool
    /\ pool.out[pool.closing] = 0
    /\ pool' = [pool EXCEPT !.closed = @ \cup {pool.closing}, !.closing = NoPool,
                            !.global = NoPool]
    /\ UNCHANGED <<agent_inboxes, clock, uuid_next, simulate_failure, lookup_patched,
                   published, ingestion, health, mgmt, mgmt_update, client_reg, http,
                   mgmt_delete, inboxes, inbox_call, mgmt_get, client_call, metrics, timed>>

-----------------------------------------------------------------------------
\* Specifications.

Init ==
    /\ agent_inboxes = [a \in {} |-> Row("", "", "", "")]
    /\ clock = 0
    /\ uuid_next = 1
    /\ simulate_failure = FALSE
    /\ lookup_patched = FALSE
    /\ published = <<>>
    /\ ingestion = IdleIngestion
    /\ health = [h \in HealthHandlers |-> IdleHealth]
    /\ mgmt = [m \in MgmtRequests |-> IdleMgmt]
    /\ mgmt_update = IdleMgmtUpdate
    /\ client_reg = [c \in RegCallers |-> IdleReg]
    /\ http = [r \in HttpCallers |-> IdleHttp]
    /\ mgmt_delete = [d \in DeleteRequests |-> IdleMgmtDelete]
    /\ inboxes = [a \in {} |-> InboxData("", "", "", "")]
    /\ inbox_call = IdleInboxCall
    /\ mgmt_get = IdleMgmtGet
    /\ client_call = IdleClientCall
    /\ metrics = [counters |-> [k \in {} |-> 0], histograms |-> [k \in {} |-> <<>>]]
    /\ timed = [q \in TimedCallers |-> IdleTimed]
    /\ pool = IdlePool

\* the requests drawn for handle_message_ingestion
AddressValues == {PyNone, PyInt(0), PyInt(42)} \cup {PyStr(s) : s \in Strings}
PayloadValues == {PyNone, PyStr(<<"a">>), PyDict(0, TRUE), PyDict(1, FALSE)}
NoSenderMetadata == [ty |-> "NoneType", keys |-> {}]
SenderMetadataValues == {NoSenderMetadata, [ty |-> "dict", keys |-> {"serviceName"}]}

\* a key the request does not hold
Missing == [n |-> 0, s |-> <<>>, ty |-> "missing", ser |-> FALSE]
MissingMetadata == [ty |-> "missing", keys |-> {}]

Request(a, p, m) ==
    [keys |-> (IF a.ty = "missing" THEN {} ELSE {"aiAgentAddress"})
              \cup (IF p.ty = "missing" THEN {} ELSE {"payload"})
              \cup (IF m.ty = "missing" THEN {} ELSE {"senderMetadata"}),
     aiAgentAddress |-> IF a.ty = "missing" THEN PyNone ELSE a,
     payload |-> IF p.ty = "missing" THEN PyNone ELSE p,
     senderMetadata |-> IF m.ty = "missing" THEN NoSenderMetadata ELSE m]

Requests ==
    {Request(a, p, MissingMetadata) : a \in AddressValues \cup {Missing},
                                      p \in PayloadValues \cup {Missing}}
    \cup {Request(PyStr(<<"a">>), PyDict(1, TRUE), m) : m \in SenderMetadataValues}

StoredStatuses == {"ACTIVE", "INACTIVE"}

\* the addresses registered where the ingestion pipeline is checked
RoutedAddresses == {<<"a">>}

\* the ingestion pipeline over a directory that direct client calls fill
Next ==
    \/ \E request \in Requests : HandleMessageIngestion(request)
    \/ SetSimulateFailure
    \/ PatchLookup
    \/ RestoreLookup
    \/ \E a \in RoutedAddresses, n \in InboxNames : ClientRegister("c1", a, "GCP_PUBSUB_TOPIC", n)
    \/ ClientRegisterReturn("c1")
    \/ \E a \in RoutedAddresses, s \in StoredStatuses : ClientUpdateStatus(a, s)
    \/ \E a \in RoutedAddresses : ClientDelete(a)

Spec == Init /\ [][Next]_vars

\* the timestamps a health report carries: none, or one given by the agent
Timestamps == {NoTime, At(0)}

\* health reports, the management PUT and direct client calls on one directory,
\* with ingestion calls for the registered address
NextHealth ==
    \/ \E h \in HealthHandlers, a \in RoutedAddresses, s \in HealthStatuses,
          ts \in Timestamps : ReportAgentHealthLookup(h, a, s, ts)
    \/ \E h \in HealthHandlers : ReportAgentHealthUpdate(h)
    \/ \E a \in RoutedAddresses, s \in {"", "ACTIVE", "PAUSED"} :
          MgmtUpdateAgentMapping(a, s)
    \/ \E a \in RoutedAddresses : ClientRegister("c1", a, "GCP_PUBSUB_TOPIC", "topic")
    \/ ClientRegisterReturn("c1")
    \/ \E a \in RoutedAddresses, s \in StoredStatuses : ClientUpdateStatus(a, s)
    \/ \E a \in RoutedAddresses : ClientDelete(a)
    \/ \E a \in RoutedAddresses :
          HandleMessageIngestion(Request(PyStr(a), PyDict(1, TRUE), MissingMetadata))
    \/ Tick

SpecHealth == Init /\ [][NextHealth]_vars

\* registrations of the two addresses on an empty directory: two POST requests
\* of the management API and two direct calls of the client, each made once
NextRegister ==
    \/ \E m \in MgmtRequests, a \in Addresses, n \in InboxNames : MgmtRegisterCheck(m, a, n)
    \/ \E m \in MgmtRequests : MgmtRegisterInsert(m)
    \/ \E c \in RegCallers, a \in Addresses, n \in InboxNames :
          ClientRegister(c, a, "GCP_PUBSUB_TOPIC", n)

SpecRegister == Init /\ [][NextRegister]_vars

\* the directory as its callers see it: direct client calls, the management PUT
\* and DELETE, and the in-memory inbox service
GivenStatuses == {"ACTIVE", "inactive", "PAUSED"}

NextDirectory ==
    \/ \E a \in RoutedAddresses, ty \in DestinationTypes, n \in InboxNames :
          ClientRegister("c1", a, ty, n)
    \/ ClientRegisterReturn("c1")
    \/ \E a \in RoutedAddresses, s \in GivenStatuses : ClientUpdateStatus(a, s)
    \/ \E a \in RoutedAddresses : ClientDelete(a)
    \/ \E a \in RoutedAddresses, s \in {"INACTIVE", "PAUSED"} : MgmtUpdateAgentMapping(a, s)
    \/ \E d \in DeleteRequests, a \in Addresses : MgmtDeleteCheck(d, a)
    \/ \E d \in DeleteRequests : MgmtDeleteCall(d)
    \/ \E a \in RoutedAddresses : CreateInbox(a, "gcp_pubsub_topic", "topic")
    \/ \E a \in RoutedAddresses : UpdateInbox(a, "PAUSED")
    \/ \E a \in Addresses : DeleteInbox(a)

SpecDirectory == Init /\ [][NextDirectory]_vars

\* requests of the HTTP directory client
\* keyword arguments given to update_agent_mapping_details, and updates given to
\* update_inbox
GivenFields == {[inbox_name |-> "other"], [registration_timestamp |-> NoTime]}
GivenInboxUpdates ==
    {[status |-> "INACTIVE"], [ai_agent_address |-> <<"a", "a">>],
     [registration_timestamp |-> NoTime], [last_updated_timestamp |-> NoTime],
     [nickname |-> "x"], <<>>}

\* registrations, updates of every kind, health reports and deletes, while time
\* passes
NextUpdates ==
    \/ \E a \in RoutedAddresses : ClientRegister("c1", a, "GCP_PUBSUB_TOPIC", "topic")
    \/ ClientRegisterReturn("c1")
    \/ \E a \in RoutedAddresses, s \in StoredStatuses : ClientUpdateStatus(a, s)
    \/ \E a \in RoutedAddresses, f \in GivenFields : ClientUpdateDetails(a, f)
    \/ \E h \in HealthHandlers, a \in RoutedAddresses, s \in {"HEALTHY", "UNHEALTHY"} :
          ReportAgentHealthLookup(h, a, s, NoTime)
    \/ \E h \in HealthHandlers : ReportAgentHealthUpdate(h)
    \/ \E a \in RoutedAddresses : ClientDelete(a)
    \/ \E a \in RoutedAddresses : CreateInbox(a, "gcp_pubsub_topic", "topic")
    \/ \E a \in RoutedAddresses, u \in GivenInboxUpdates : UpdateInboxFields(a, u)
    \/ \E a \in RoutedAddresses : DeleteInbox(a)
    \/ Tick

SpecUpdates == Init /\ [][NextUpdates]_vars

\* direct calls of the router's directory client and of getAgentMapping on a
\* store that can fail
NextClient ==
    \/ \E a \in RoutedAddresses : ClientRegister("c1", a, "GCP_PUBSUB_TOPIC", "topic")
    \/ ClientRegisterReturn("c1")
    \/ \E a \in Addresses, f \in {NoFailure} \cup StoreFailures :
          CallUpdateStatus(a, "INACTIVE", f)
    \/ \E a \in Addresses, f \in {NoFailure} \cup StoreFailures :
          CallUpdateDetails(a, [inbox_name |-> "other"], f)
    \/ \E a \in Addresses, f \in {NoFailure} \cup StoreFailures : CallDelete(a, f)
    \/ \E a \in Addresses, f \in {NoFailure} \cup StoreFailures : CallGet(a, f)
    \/ \E a \in Addresses, f \in {NoFailure} \cup StoreFailures : CallLegacyGet(a, f)

SpecClient == Init /\ [][NextClient]_vars

\* health reports and management requests on a store that can fail
NextFailure ==
    \/ \E a \in RoutedAddresses : ClientRegister("c1", a, "GCP_PUBSUB_TOPIC", "topic")
    \/ ClientRegisterReturn("c1")
    \/ \E h \in HealthHandlers, a \in RoutedAddresses, s \in {"HEALTHY", "UNHEALTHY"} :
          ReportAgentHealthLookup(h, a, s, NoTime)
    \/ \E h \in HealthHandlers : ReportAgentHealthUpdate(h)
    \/ \E h \in HealthHandlers, a \in RoutedAddresses, s \in {"HEALTHY", "UNHEALTHY"},
          e \in StoreFailures : ReportAgentHealthLookupFails(h, a, s, e)
    \/ \E h \in HealthHandlers, e \in StoreFailures : ReportAgentHealthUpdateFails(h, e)
    \/ \E d \in DeleteRequests, a \in RoutedAddresses : MgmtDeleteCheck(d, a)
    \/ \E d \in DeleteRequests : MgmtDeleteCall(d)
    \/ \E d \in DeleteRequests, a \in RoutedAddresses, e \in StoreFailures :
          MgmtDeleteCheckFails(d, a, e)
    \/ \E d \in DeleteRequests, e \in StoreFailures : MgmtDeleteCallFails(d, e)
    \/ \E a \in RoutedAddresses : MgmtRetrieve(a)
    \/ \E a \in RoutedAddresses, e \in StoreFailures : MgmtRetrieveFails(a, e)

SpecFailure == Init /\ [][NextFailure]_vars

\* callers of a wrapped handler that share the metrics collector
NextMetrics ==
    \/ \E q \in TimedCallers : TimedStart(q)
    \/ \E q \in TimedCallers, e \in OperationEnds : TimedEnd(q, e)
    \/ Tick

SpecMetrics == Init /\ [][NextMetrics]_vars

\* repository operations that share the connection pool
NextPool ==
    \/ \E c \in PoolCallers : OperationStart(c)
    \/ \E c \in PoolCallers : PoolCreated(c)
    \/ \E c \in PoolCallers : Acquire(c)
    \/ \E c \in PoolCallers, f \in {NoFailure} \cup StoreFailures : Release(c, f)
    \/ ClosePoolStart
    \/ ClosePoolEnd

SpecPool == Init /\ [][NextPool]_vars

NextRetry ==
    \/ \E r \in HttpCallers, op \in HttpOps : HttpStart(r, op)
    \/ \E r \in HttpCallers, o \in HttpOutcomes : HttpAttempt(r, o)

SpecRetry == Init /\ [][NextRetry]_vars

-----------------------------------------------------------------------------
\* Claims about the ingestion pipeline, checked under Spec.

\* what the claims call a valid request: aiAgentAddress is a string with a
\* character that is not a blank, payload is an object
BlankOrEmpty(s) == \A i \in 1..Len(s) : s[i] = " "

WellFormed(request) ==
    /\ "aiAgentAddress" \in request.keys
    /\ request.aiAgentAddress.ty = "str"
    /\ ~BlankOrEmpty(request.aiAgentAddress.s)
    /\ "payload" \in request.keys
    /\ request.payload.ty = "dict"

\* C1: a valid request whose address has an INACTIVE record ends with
\* AGENT_INACTIVE and HTTP 404 and publish is not called for it; publish is called
\* only when the record's status is ACTIVE.
C1_InactiveEndsAgentInactive ==
    ingestion.called =>
        /\ (WellFormed(ingestion.request) /\ ingestion.stored_status = "INACTIVE")
              => /\ ingestion.out.resp.kind = "return"
                 /\ ingestion.out.resp.errorCode = "AGENT_INACTIVE"
                 /\ ingestion.out.resp.statusCode = 404
                 /\ ingestion.out.publish_calls = 0
        /\ ingestion.out.publish_calls > 0 => ingestion.stored_status = "ACTIVE"

\* C2: a valid request whose address has an ACTIVE record with a non-empty
\* destination, and whose publish succeeds, ends with HTTP 202 and the message
\* identifier generated for the call, which is the messageId attribute of the one
\* message published to the record's destination.
C2_ActiveEndsAccepted ==
    (/\ ingestion.called
     /\ WellFormed(ingestion.request)
     /\ ingestion.request.payload.ser
     /\ ingestion.stored_status = "ACTIVE"
     /\ ingestion.stored_inbox # ""
     /\ ~ingestion.sim)
        => /\ ingestion.out.resp.kind = "return"
           /\ ingestion.out.resp.statusCode = 202
           /\ ingestion.out.resp.messageId = ingestion.mid
           /\ ingestion.mid > 0
           /\ ingestion.out.publish_calls = 1
           /\ Len(ingestion.out.msgs) = 1
           /\ ingestion.out.msgs[1].topic = ingestion.stored_inbox
           /\ ingestion.out.msgs[1].attributes.messageId = ingestion.mid

\* C3: a request whose aiAgentAddress is missing, not a string, empty or blank, or
\* whose payload is missing or not an object, ends with INVALID_REQUEST and HTTP
\* 400, with no call of the directory lookup and no call of publish.
C3_InvalidRequestRejected ==
    (ingestion.called /\ ~WellFormed(ingestion.request))
        => /\ ingestion.out.resp = Returned(400, "INVALID_REQUEST", 0)
           /\ ingestion.out.cams_calls = 0
           /\ ingestion.out.publish_calls = 0
           /\ ingestion.out.msgs = <<>>

\* a blank address with an object payload was rejected
C3_Witness ==
    /\ ingestion.called
    /\ ingestion.request.aiAgentAddress = PyStr(<<" ">>)
    /\ ingestion.request.payload.ty = "dict"
    /\ ingestion.out.resp.statusCode = 400

\* C4: a valid request whose address has no record ends with AGENT_NOT_FOUND and
\* HTTP 404, and nothing is published.
C4_AbsentEndsNotFound ==
    (ingestion.called /\ WellFormed(ingestion.request)
     /\ ingestion.stored_status = "ABSENT")
        => /\ ingestion.out.resp.kind = "return"
           /\ ingestion.out.resp.errorCode = "AGENT_NOT_FOUND"
           /\ ingestion.out.resp.statusCode = 404
           /\ ingestion.out.publish_calls = 0

\* the address the request carries, when it is a string
RequestAddress(request) == request.aiAgentAddress.s

\* C11: no exception leaves handle_message_ingestion: whatever is raised inside it
\* becomes the response INTERNAL_SERVER_ERROR with HTTP 500 and nothing is
\* published.
C11_NoExceptionEscapes ==
    ingestion.called
        => /\ ingestion.out.resp.kind = "return"
           /\ ingestion.out.resp.exc = ""

\* C12: a valid request for an ACTIVE record with a destination, made while the
\* publisher fails, ends with PUB_SUB_ERROR and HTTP 500 after one call of
\* publish_message, and no call ends with 202 while the publisher fails or calls
\* publish_message more than once.
C12_PublishFailureEndsPublishError ==
    ingestion.called
        => /\ ingestion.out.publish_calls <= 1
           /\ ingestion.sim => ingestion.out.resp.statusCode # 202
           /\ (/\ WellFormed(ingestion.request)
               /\ ingestion.request.payload.ser
               /\ ingestion.stored_status = "ACTIVE"
               /\ ingestion.stored_inbox # ""
               /\ ingestion.sim)
                  => /\ ingestion.out.resp = Returned(500, "PUB_SUB_ERROR", 0)
                     /\ ingestion.out.publish_calls = 1
                     /\ ingestion.out.msgs = <<>>

\* the lookup of the call gave an ACTIVE mapping without inboxName: the function
\* of Scenario 9 was in place and the request is for its address
LookupGaveNoInbox ==
    /\ ingestion.patched
    /\ RequestAddress(ingestion.request) = NoInboxAddress

\* the part of C13 where the lookup is the plain function of Scenario 9, which
\* holds
C13_ReplacedLookupPartHolds ==
    (ingestion.called /\ WellFormed(ingestion.request) /\ LookupGaveNoInbox)
        => /\ ingestion.out.resp = Returned(500, "CONFIG_ERROR", 0)
           /\ ingestion.out.publish_calls = 0
           /\ ingestion.out.msgs = <<>>

\* C13: a valid request whose address has an ACTIVE record with an empty inbox
\* name (in the table, or handed out by the replaced lookup) ends with
\* CONFIG_ERROR and HTTP 500, with no message built and no call of publish.
C13_NoInboxEndsConfigError ==
    (/\ ingestion.called
     /\ WellFormed(ingestion.request)
     /\ \/ LookupGaveNoInbox
        \/ ingestion.stored_status = "ACTIVE" /\ ingestion.stored_inbox = "")
        => /\ ingestion.out.resp = Returned(500, "CONFIG_ERROR", 0)
           /\ ingestion.out.publish_calls = 0
           /\ ingestion.out.msgs = <<>>

\* the attributes the claim gives a message published for a request
EnvelopeAttributes(request, mid, stamp) ==
    [messageId |-> mid, aiAgentAddress |-> RequestAddress(request),
     timestampPublished |-> stamp, contentType |-> "application/json",
     sender |-> IF "senderMetadata" \in request.keys /\ request.senderMetadata.ty = "dict"
                THEN request.senderMetadata.keys
                        \cap {"serviceName", "correlationId", "senderProvidedMessageId"}
                ELSE {}]

\* C38: a message published for a call carries the call's messageId, the address,
\* the time of publishing, the content type and the sender's attributes for the
\* keys senderMetadata holds; a valid request for an ACTIVE record with a
\* destination whose payload cannot be serialized ends with TRANSFORMATION_ERROR
\* and HTTP 500 without a call of publish_message.
C38_EnvelopeAttributes ==
    ingestion.called
        => /\ \A i \in 1..Len(ingestion.out.msgs) :
                 ingestion.out.msgs[i].attributes
                    = EnvelopeAttributes(ingestion.request, ingestion.mid, clock)
           /\ (/\ WellFormed(ingestion.request)
               /\ ~ingestion.request.payload.ser
               /\ ingestion.stored_status = "ACTIVE"
               /\ ingestion.stored_inbox # "")
                  => /\ ingestion.out.resp = Returned(500, "TRANSFORMATION_ERROR", 0)
                     /\ ingestion.out.publish_calls = 0
                     /\ ingestion.out.msgs = <<>>

\* the part of C38 that holds: steps 5 and 6 of the function, run for the call's
\* request with an ACTIVE mapping as the lookup's value, build the attributes of
\* the claim and end with TRANSFORMATION_ERROR for a payload that cannot be
\* serialized
C38_TransformPartHolds ==
    (ingestion.called /\ WellFormed(ingestion.request))
        => LET mapping == [NoInboxMapping EXCEPT
                              !.row = Row("GCP_PUBSUB_TOPIC", "topic", "ACTIVE", "")]
               out == RouteMessage(mapping, ingestion.request,
                                   RequestAddress(ingestion.request),
                                   ingestion.request.payload, ingestion.mid, FALSE, clock)
           IN  IF ingestion.request.payload.ser
               THEN /\ out.resp = Returned(202, "", ingestion.mid)
                    /\ Len(out.msgs) = 1
                    /\ out.msgs[1].attributes
                          = EnvelopeAttributes(ingestion.request, ingestion.mid, clock)
               ELSE /\ out.resp = Returned(500, "TRANSFORMATION_ERROR", 0)
                    /\ out.publish_calls = 0
                    /\ out.msgs = <<>>

\* the eight outcomes as the code names them, each with its HTTP status; the
\* accepted outcome carries no errorCode
OutcomeStatus ==
    [AGENT_NOT_FOUND |-> 404, AGENT_INACTIVE |-> 404, INTERNAL_SERVER_ERROR |-> 500,
     CONFIG_ERROR |-> 500, TRANSFORMATION_ERROR |-> 500, PUB_SUB_ERROR |-> 500,
     INVALID_REQUEST |-> 400]

HasFixedStatus(resp) ==
    IF resp.errorCode = "" THEN resp.statusCode = 202 /\ resp.messageId > 0
    ELSE /\ resp.errorCode \in DOMAIN OutcomeStatus
         /\ resp.statusCode = OutcomeStatus[resp.errorCode]
         /\ resp.messageId = 0

\* the part of C14 about the calls that return, which holds
C14_ReturnedPartHolds ==
    (ingestion.called /\ ingestion.out.resp.kind = "return")
        => HasFixedStatus(ingestion.out.resp)

\* C14: every call of handle_message_ingestion ends with a response that carries
\* one of the eight outcomes and the HTTP status fixed for it.
C14_OneOfEightOutcomes ==
    ingestion.called
        => /\ ingestion.out.resp.kind = "return"
           /\ HasFixedStatus(ingestion.out.resp)

-----------------------------------------------------------------------------
\* Claims about registration, checked under SpecRegister (no record is deleted
\* there, so a record that exists keeps existing).

\* C5: of two registrations for the same address that run concurrently, exactly
\* one succeeds and the other receives the duplicate outcome (DuplicateAgentError
\* from the repository, 409 from the management API), and the record exists
\* afterwards.
C5_ConcurrentRegistrationsOneWinner ==
    /\ \A c \in RegCallers, d \in RegCallers :
          (/\ c # d
           /\ client_reg[c].done /\ client_reg[d].done
           /\ client_reg[c].address = client_reg[d].address
           /\ ~client_reg[c].existed)
              => /\ client_reg[c].exc = ""
                 /\ client_reg[d].repo_exc = "DuplicateAgentError"
                 /\ client_reg[c].address \in DOMAIN agent_inboxes
    /\ \A m \in MgmtRequests :
          mgmt[m].pc = "done"
              => /\ mgmt[m].code \in {201, 409}
                 /\ mgmt[m].address \in DOMAIN agent_inboxes

\* C6: a registration of an address that has no record succeeds and creates it; a
\* registration of an address that already has a record ends with
\* DuplicateAgentError after its one insert and leaves the table as it was.
C6_SecondRegistrationDuplicate ==
    \A c \in RegCallers :
        client_reg[c].done
            => /\ client_reg[c].address \in DOMAIN agent_inboxes
               /\ IF client_reg[c].existed
                  THEN client_reg[c].repo_exc = "DuplicateAgentError"
                  ELSE client_reg[c].exc = ""

-----------------------------------------------------------------------------
\* Claims about the directory, checked under SpecDirectory.

\* the step is a register call of caller c that succeeded
RegisterStep(c) ==
    /\ ~client_reg[c].done
    /\ client_reg'[c].done
    /\ client_reg'[c].exc = ""

\* the step is a create_inbox call that succeeded
CreateInboxStep ==
    /\ inbox_call' # inbox_call
    /\ inbox_call'.op = "create_inbox"
    /\ inbox_call'.code = 201

\* the destination types drawn, in upper case
TypeInUpperCase(ty) == IF ty = "gcp_pubsub_topic" THEN "GCP_PUBSUB_TOPIC" ELSE ty

\* what a lookup right after the step returns agrees with what was registered,
\* the destination type being compared with want_type
ResolvesTo(got, address, want_type, name) ==
    /\ got.found
    /\ got.aiAgentAddress = address
    /\ got.inboxDestinationType = want_type
    /\ got.inboxName = name
    /\ got.status = "ACTIVE"

InboxResolvesTo(got, address, want_type, name) ==
    /\ got.found
    /\ got.ai_agent_address = address
    /\ got.data.inbox_destination_type = want_type
    /\ got.data.inbox_name = name
    /\ got.data.status = "ACTIVE"

RegisterExistingStep(c) ==
    /\ ~client_reg[c].done
    /\ client_reg'[c].done
    /\ client_reg'[c].address \in DOMAIN agent_inboxes

\* the step is a create_inbox call for an address that has an inbox
CreateExistingInboxStep ==
    /\ inbox_call' # inbox_call
    /\ inbox_call'.op = "create_inbox"
    /\ inbox_call'.address \in DOMAIN inboxes

\* C16: a register for an address that already has a record fails and leaves the
\* table as it was, in the repository and in the in-memory inbox service alike,
\* so an address never comes to stand for a second or a different record by a
\* create.
C16_CreateOnExistingFails ==
    [][/\ \A c \in RegCallers :
             RegisterExistingStep(c)
                 => /\ client_reg'[c].exc # ""
                    /\ agent_inboxes' = agent_inboxes
       /\ CreateExistingInboxStep
             => /\ inbox_call'.code = 409
                /\ inboxes' = inboxes]_vars

\* a register and a create_inbox for an address that had a record have both failed
\* and the records are there
C16_Witness ==
    \E c \in RegCallers :
        /\ client_reg[c].done
        /\ client_reg[c].existed
        /\ client_reg[c].exc # ""
        /\ client_reg[c].address \in DOMAIN agent_inboxes
        /\ agent_inboxes[client_reg[c].address].inbox_name # client_reg[c].inbox_name
        /\ inbox_call.op = "create_inbox"
        /\ inbox_call.code = 409
        /\ inbox_call.address \in DOMAIN inboxes

\* C17: every stored record's status is ACTIVE or INACTIVE, in the repository's
\* table and in the in-memory inbox service, whatever statuses the callers give.
C17_StatusActiveOrInactive ==
    /\ \A a \in DOMAIN agent_inboxes : agent_inboxes[a].status \in {"ACTIVE", "INACTIVE"}
    /\ \A a \in DOMAIN inboxes : inboxes[a].status \in {"ACTIVE", "INACTIVE"}

\* the part of C17 that holds: the management PUT answers a status outside
\* ACTIVE and INACTIVE with 422 and leaves the table as it was
C17_ManagementPartHolds ==
    [][(mgmt_update' # mgmt_update /\ StatusRejected(mgmt_update'.status))
          => /\ mgmt_update'.code = 422
             /\ agent_inboxes' = agent_inboxes]_vars

\* the step is the existence check of DELETE request d
DeleteCheckStep(d) ==
    /\ mgmt_delete'[d] # mgmt_delete[d]
    /\ mgmt_delete[d].pc # "delete"

\* the step is the delete call of DELETE request d
DeleteCallStep(d) ==
    /\ mgmt_delete[d].pc = "delete"
    /\ mgmt_delete'[d].pc = "done"

\* C18: a DELETE request for an address that has no record is answered 404 and
\* leaves the table as it was; a delete call that finds no record is never
\* answered 204 and leaves the table as it was; delete_inbox for an address that
\* has no inbox answers 404 and leaves the inboxes as they were.
C18_DeleteAbsentNotFound ==
    [][/\ \A d \in DeleteRequests :
             /\ (DeleteCheckStep(d) /\ mgmt_delete'[d].address \notin DOMAIN agent_inboxes)
                   => /\ mgmt_delete'[d].pc = "done"
                      /\ mgmt_delete'[d].code = 404
                      /\ agent_inboxes' = agent_inboxes
             /\ (DeleteCallStep(d) /\ mgmt_delete[d].address \notin DOMAIN agent_inboxes)
                   => /\ mgmt_delete'[d].code # 204
                      /\ agent_inboxes' = agent_inboxes
       /\ (/\ inbox_call' # inbox_call
           /\ inbox_call'.op = "delete_inbox"
           /\ inbox_call'.address \notin DOMAIN inboxes)
             => /\ inbox_call'.code = 404
                /\ inboxes' = inboxes]_vars

\* a DELETE request and a delete_inbox call for addresses without a record have
\* been answered 404 while other records are stored
C18_Witness ==
    /\ \E d \in DeleteRequests :
          /\ mgmt_delete[d].pc = "done"
          /\ mgmt_delete[d].code = 404
          /\ mgmt_delete[d].address \notin DOMAIN agent_inboxes
    /\ DOMAIN agent_inboxes # {}
    /\ inbox_call.op = "delete_inbox"
    /\ inbox_call.code = 404
    /\ inbox_call.address \notin DOMAIN inboxes
    /\ DOMAIN inboxes # {}

\* C19: every answer of the management DELETE is 204 or 404, also when two
\* requests for the same address overlap.
C19_DeleteAnswers204Or404 ==
    \A d \in DeleteRequests :
        mgmt_delete[d].pc = "done" => mgmt_delete[d].code \in {204, 404}

-----------------------------------------------------------------------------
\* Claims about health reports, checked under SpecHealth.

HasStatus(tbl, a, s) == a \in DOMAIN tbl /\ tbl[a].status = s

\* the step is the update of a health report h for a record that exists
HealthUpdateStep(h) ==
    /\ health[h].pc = "update"
    /\ health'[h].pc = "done"
    /\ health[h].address \in DOMAIN agent_inboxes

\* the part of C7 about the record: the update of an UNHEALTHY report leaves the
\* record INACTIVE with the report's stamp
C7_RecordDemoted ==
    \A h \in HealthHandlers :
        (HealthUpdateStep(h) /\ health[h].health_status = "UNHEALTHY")
            => /\ HasStatus(agent_inboxes', health[h].address, "INACTIVE")
               /\ agent_inboxes'[health[h].address].last_health_check_timestamp
                     = health[h].stamp
               /\ health[h].stamp.some

\* the part of C7 about ingestion: a call made while the record is INACTIVE as the
\* health report left it ends with AGENT_INACTIVE
C7_IngestionSeesInactive ==
    \A a \in RoutedAddresses :
        (/\ ingestion' # ingestion
         /\ HasStatus(agent_inboxes, a, "INACTIVE")
         /\ agent_inboxes[a].updated_by = "agent_health_check")
            => /\ ingestion'.out.resp.kind = "return"
               /\ ingestion'.out.resp.errorCode = "AGENT_INACTIVE"

\* C7: an UNHEALTHY health report for an existing record sets its status to
\* INACTIVE and stamps last_health_check_timestamp, and an ingestion for that
\* address that runs afterwards ends with AGENT_INACTIVE.
C7_UnhealthyDemotesAndRoutingSeesIt ==
    [][C7_RecordDemoted /\ C7_IngestionSeesInactive]_vars

\* the record part alone, which holds
C7_RecordPartHolds == [][C7_RecordDemoted]_vars

\* the part of C8 about health reports: no step of a health report changes the
\* status of an INACTIVE record or removes it, and a step that takes a record from
\* INACTIVE to ACTIVE is never one made by the health report handler
C8_HealthNeverReactivates ==
    \A a \in RoutedAddresses :
        HasStatus(agent_inboxes, a, "INACTIVE")
            => /\ health' # health => HasStatus(agent_inboxes', a, "INACTIVE")
               /\ HasStatus(agent_inboxes', a, "ACTIVE")
                     => /\ health' = health
                        /\ agent_inboxes'[a].updated_by # "agent_health_check"

\* the part of C8 about the management interface: a PUT that sets status ACTIVE
\* for an INACTIVE record makes it ACTIVE and answers 200
C8_ManagementReactivates ==
    \A a \in RoutedAddresses :
        (/\ mgmt_update' # mgmt_update
         /\ mgmt_update'.address = a
         /\ mgmt_update'.status = "ACTIVE"
         /\ HasStatus(agent_inboxes, a, "INACTIVE"))
            => /\ mgmt_update'.code = 200
               /\ HasStatus(agent_inboxes', a, "ACTIVE")

\* C8: once a record is INACTIVE no health report, HEALTHY or UNHEALTHY, makes it
\* ACTIVE again; an explicit status update through the management interface does.
C8_DemotionOneWay ==
    [][C8_HealthNeverReactivates /\ C8_ManagementReactivates]_vars

\* the part about health reports alone, which holds
C8_HealthPartHolds == [][C8_HealthNeverReactivates]_vars

\* a HEALTHY report for an INACTIVE record was recorded and the record is still
\* INACTIVE
C8_Witness ==
    \E h \in HealthHandlers :
        /\ health[h].pc = "done"
        /\ health[h].health_status = "HEALTHY"
        /\ health[h].code = 200
        /\ health[h].row_updated
        /\ HasStatus(agent_inboxes, health[h].address, "INACTIVE")
        /\ agent_inboxes[health[h].address].updated_by = "agent_health_check"

\* C20: a health report whose status is neither HEALTHY nor UNHEALTHY ends at
\* once with 400, having made no read and no write of the directory, and the
\* table is as it was.
C20_InvalidStatusRejectedBeforeStore ==
    [][\A h \in HealthHandlers :
          (/\ health'[h] # health[h]
           /\ health'[h].health_status \notin {"HEALTHY", "UNHEALTHY"})
             => /\ health'[h].pc = "done"
                /\ health'[h].code = 400
                /\ health'[h].reads = 0
                /\ health'[h].writes = 0
                /\ agent_inboxes' = agent_inboxes]_vars

\* a DEGRADED report for an address that has a record has been answered 400
C20_Witness ==
    \E h \in HealthHandlers :
        /\ health[h].pc = "done"
        /\ health[h].health_status = "DEGRADED"
        /\ health[h].code = 400
        /\ health[h].address \in DOMAIN agent_inboxes

\* the step is the validation and lookup of health report h
HealthLookupStep(h) ==
    /\ health'[h] # health[h]
    /\ health[h].pc # "update"

\* C21: a HEALTHY or UNHEALTHY report for an address that has no record ends
\* with 404 after its lookup, makes no write, and the table is as it was: no
\* record is created.
C21_AbsentAddressNotFound ==
    [][\A h \in HealthHandlers :
          (/\ HealthLookupStep(h)
           /\ health'[h].health_status \in {"HEALTHY", "UNHEALTHY"}
           /\ health'[h].address \notin DOMAIN agent_inboxes)
             => /\ health'[h].pc = "done"
                /\ health'[h].code = 404
                /\ health'[h].writes = 0
                /\ agent_inboxes' = agent_inboxes]_vars

\* an UNHEALTHY report for an address without a record has been answered 404
C21_Witness ==
    \E h \in HealthHandlers :
        /\ health[h].pc = "done"
        /\ health[h].health_status = "UNHEALTHY"
        /\ health[h].code = 404
        /\ health[h].address \notin DOMAIN agent_inboxes

\* C22: a HEALTHY report for a record takes as its stamp the timestamp it was
\* given, or the time of the call when it was given none, and its update writes
\* that stamp to last_health_check_timestamp and leaves status,
\* inbox_destination_type and inbox_name as they were.
C22_HealthyStampsOnly ==
    [][\A h \in HealthHandlers :
          /\ (HealthLookupStep(h) /\ health'[h].pc = "update")
                => health'[h].stamp = IF health'[h].given.some THEN health'[h].given
                                      ELSE At(clock)
          /\ (HealthUpdateStep(h) /\ health[h].health_status = "HEALTHY")
                => LET a == health[h].address
                   IN  /\ a \in DOMAIN agent_inboxes'
                       /\ agent_inboxes'[a].last_health_check_timestamp = health[h].stamp
                       /\ agent_inboxes'[a].status = agent_inboxes[a].status
                       /\ agent_inboxes'[a].inbox_destination_type
                             = agent_inboxes[a].inbox_destination_type
                       /\ agent_inboxes'[a].inbox_name = agent_inboxes[a].inbox_name]_vars

\* a HEALTHY report given no timestamp has stamped an INACTIVE record with the
\* time of the call
C22_Witness ==
    \E h \in HealthHandlers :
        /\ health[h].pc = "done"
        /\ health[h].health_status = "HEALTHY"
        /\ health[h].code = 200
        /\ health[h].row_updated
        /\ ~health[h].given.some
        /\ health[h].stamp = At(1)
        /\ HasStatus(agent_inboxes, health[h].address, "INACTIVE")
        /\ agent_inboxes[health[h].address].last_health_check_timestamp = health[h].stamp

\* C25: an ingestion call that runs while the table's record for its address is
\* INACTIVE or absent, after whatever health reports, status updates and deletes,
\* does not call the publisher and adds nothing to the published messages.
C25_NoPublishUnlessActive ==
    [][(/\ ingestion' # ingestion
        /\ StoredStatus(agent_inboxes, DictGet(ingestion'.request, "aiAgentAddress"))
              # "ACTIVE")
          => /\ ingestion'.out.publish_calls = 0
             /\ published' = published]_vars

\* an ingestion call has looked up an address whose record an UNHEALTHY report
\* had set INACTIVE, and nothing is published
C25_Witness ==
    /\ ingestion.called
    /\ ingestion.out.cams_calls = 1
    /\ ingestion.stored_status = "INACTIVE"
    /\ ingestion.out.publish_calls = 0
    /\ published = <<>>
    /\ \E a \in DOMAIN agent_inboxes :
          /\ PyStr(a) = DictGet(ingestion.request, "aiAgentAddress")
          /\ agent_inboxes[a].status = "INACTIVE"
          /\ agent_inboxes[a].updated_by = "agent_health_check"

\* C26: a health report answered 200 has updated a record, also when the record
\* is deleted between the report's lookup and its update.
C26_SuccessMeansUpdated ==
    \A h \in HealthHandlers :
        (health[h].pc = "done" /\ health[h].code = 200) => health[h].row_updated

\* the part of C26 that holds: the update of a report for a record that is still
\* there stamps it and is answered 200
C26_PresentPartHolds ==
    [][\A h \in HealthHandlers :
          HealthUpdateStep(h)
             => /\ health'[h].code = 200
                /\ health'[h].row_updated
                /\ agent_inboxes'[health[h].address].last_health_check_timestamp
                      = health[h].stamp]_vars

-----------------------------------------------------------------------------
\* Claims about updates, checked under SpecUpdates.

\* C24: a record that is there before and after a step has the same address and
\* the same registration time after it as before, in the repository's table and
\* in the in-memory inbox service; the address of a record is the one it is
\* stored under.
C24_AddressAndRegistrationKept ==
    [][/\ \A a \in DOMAIN agent_inboxes \cap DOMAIN agent_inboxes' :
             /\ agent_inboxes[a].ai_agent_address = a
             /\ agent_inboxes'[a].ai_agent_address = a
             /\ agent_inboxes'[a].registration_timestamp
                   = agent_inboxes[a].registration_timestamp
       /\ \A a \in DOMAIN inboxes \cap DOMAIN inboxes' :
             /\ inboxes[a].ai_agent_address = a
             /\ inboxes'[a].ai_agent_address = a
             /\ inboxes'[a].registration_timestamp = inboxes[a].registration_timestamp]_vars

\* a record and an inbox registered at time 0 have been updated, the record also
\* by a health report, and it is time 1
C24_Witness ==
    /\ clock = 1
    /\ \E a \in DOMAIN agent_inboxes :
          /\ agent_inboxes[a].registration_timestamp = At(0)
          /\ agent_inboxes[a].last_health_check_timestamp = At(1)
          /\ agent_inboxes[a].inbox_name = "other"
          /\ agent_inboxes[a].status = "INACTIVE"
    /\ \E a \in DOMAIN inboxes :
          /\ inboxes[a].registration_timestamp = At(0)
          /\ inboxes[a].status = "INACTIVE"
    /\ inbox_call.op = "update_inbox"
    /\ inbox_call.code = 200

\* the names update_inbox assigns from its updates
InboxUpdatable == DOMAIN InboxData("", "", "", "") \ ProtectedInboxFields

\* C31: an update that is given no field, or a field outside the names it may
\* assign, ends with an error.
C31_UnlistedFieldsRejected ==
    (/\ inbox_call.op = "update_inbox"
     /\ \/ inbox_call.given = {}
        \/ inbox_call.given \ InboxUpdatable # {})
       => inbox_call.code # 200

\* the part of C31 that holds for the repository: update_agent_mapping_details
\* with no field or with a field outside allowed_fields raises ValueError and
\* leaves the table as it was
C31_RepositoryPartHolds ==
    \A a \in Addresses :
        \A f \in {<<>>, [nickname |-> "x"], [registration_timestamp |-> NoTime],
                  [inbox_name |-> "other", nickname |-> "x"]} :
            RepoUpdate(agent_inboxes, a, "router_service", f, clock)
               = [tbl |-> agent_inboxes, exc |-> "ValueError"]

\* C32: a step that changes a row the table keeps sets the row's
\* last_updated_timestamp to the time of the step and its updated_by to the party
\* that made the update (agent_health_check for a health report, router_service
\* for the client's updates); a step that changes an inbox of the in-memory
\* service sets the inbox's two stamps in the same way.
C32_UpdatesStampTogether ==
    [][/\ \A a \in Addresses :
             (/\ a \in DOMAIN agent_inboxes
              /\ a \in DOMAIN agent_inboxes'
              /\ agent_inboxes'[a] # agent_inboxes[a])
                => /\ agent_inboxes'[a].last_updated_timestamp = At(clock)
                   /\ agent_inboxes'[a].updated_by =
                         IF health' # health THEN "agent_health_check"
                         ELSE "router_service"
       /\ \A a \in Addresses :
             (/\ a \in DOMAIN inboxes
              /\ a \in DOMAIN inboxes'
              /\ inboxes'[a] # inboxes[a])
                => /\ inboxes'[a].last_updated_timestamp = At(clock)
                   /\ inboxes'[a].updated_by = "system"]_vars

\* a row registered at time 0 by the client that a health report made INACTIVE at
\* time 1
C32_Witness ==
    \E a \in DOMAIN agent_inboxes :
        /\ agent_inboxes[a].registration_timestamp = At(0)
        /\ agent_inboxes[a].status = "INACTIVE"
        /\ agent_inboxes[a].last_health_check_timestamp = At(1)
        /\ agent_inboxes[a].last_updated_timestamp = At(1)
        /\ agent_inboxes[a].updated_by = "agent_health_check"

\* C33: no step takes the last_updated_timestamp of a row, or of an inbox of the
\* in-memory service, to an earlier time.
C33_LastUpdatedNeverDecreases ==
    [][/\ \A a \in DOMAIN agent_inboxes \cap DOMAIN agent_inboxes' :
             agent_inboxes'[a].last_updated_timestamp.v
                >= agent_inboxes[a].last_updated_timestamp.v
       /\ \A a \in DOMAIN inboxes \cap DOMAIN inboxes' :
             inboxes'[a].last_updated_timestamp.v
                >= inboxes[a].last_updated_timestamp.v]_vars

\* an inbox created at time 1 after an update_inbox that was given a
\* last_updated_timestamp of its own, and a row updated at time 1
C33_Witness ==
    /\ inbox_call.op = "update_inbox"
    /\ inbox_call.code = 200
    /\ inbox_call.given = {"last_updated_timestamp"}
    /\ inboxes[inbox_call.address].registration_timestamp = At(1)
    /\ inboxes[inbox_call.address].last_updated_timestamp = At(1)
    /\ \E a \in DOMAIN agent_inboxes :
          /\ agent_inboxes[a].registration_timestamp = At(0)
          /\ agent_inboxes[a].last_updated_timestamp = At(1)
          /\ agent_inboxes[a].inbox_name = "other"

-----------------------------------------------------------------------------
\* Claims about the directory client's calls, checked under SpecClient.

\* C27: an update of the client for an address without a record raises the
\* repository's AgentNotFoundError to its caller.
C27_UpdateAbsentRaisesNotFound ==
    (/\ client_call.fn \in {"update_agent_status", "update_agent_mapping_details"}
     /\ client_call.store = "no row")
       => client_call.exc = "AgentNotFoundError"

\* the part of C27 that holds: the repository raises AgentNotFoundError for the
\* update, and the update leaves the table as it was
C27_NoRecordCreatedPartHolds ==
    [][(/\ client_call' # client_call
        /\ client_call'.fn \in {"update_agent_status", "update_agent_mapping_details"}
        /\ client_call'.store = "no row")
          => /\ client_call'.repo_exc = "AgentNotFoundError"
             /\ agent_inboxes' = agent_inboxes]_vars

\* C28: a delete of the client for an address without a record ends as a delete
\* of a record does: it raises nothing and returns True, so a second delete of an
\* address gives the result the first gave.
C28_DeleteAbsentSucceeds ==
    (client_call.fn = "delete_agent_mapping" /\ client_call.store = "no row")
       => /\ client_call.exc = ""
          /\ client_call.result = "True"

\* the part of C28 that holds for the router's client: the delete of an absent
\* address raises nothing and leaves the table as it was
C28_NoRaisePartHolds ==
    [][(/\ client_call' # client_call
        /\ client_call'.fn = "delete_agent_mapping"
        /\ client_call'.store = "no row")
          => /\ client_call'.exc = ""
             /\ agent_inboxes' = agent_inboxes]_vars

\* the part of C28 that holds for the HTTP client (under SpecRetry): a DELETE
\* answered 404 ends delete_agent_mapping as a DELETE answered 2xx does, with a
\* return and nothing raised
C28_HttpClientPartHolds ==
    \A r \in HttpCallers :
        (/\ http[r].pc = "done"
         /\ http[r].op = "delete_agent_mapping"
         /\ http[r].outcomes # <<>>
         /\ http[r].outcomes[Len(http[r].outcomes)] = [code |-> 404, kind |-> "status"])
           => http[r].kind = "return"

\* C29: a statement that fails in the store leaves the repository as
\* CAMSRepositoryError; an insert that violates the primary key leaves it as
\* DuplicateAgentError, and an update or delete that matches no row as
\* AgentNotFoundError.
C29_ErrorKinds ==
    /\ client_call.store = "failed" => client_call.repo_exc = "CAMSRepositoryError"
    /\ (/\ client_call.store = "no row"
        /\ client_call.fn \in {"update_agent_status", "update_agent_mapping_details",
                               "delete_agent_mapping"})
          => client_call.repo_exc = "AgentNotFoundError"
    /\ \A c \in RegCallers :
          (client_reg[c].done /\ client_reg[c].existed)
              => client_reg[c].repo_exc = "DuplicateAgentError"

\* the part of C29 that holds: an error of the database leaves the repository as
\* CAMSRepositoryError and a missing row as AgentNotFoundError
C29_WrappedPartHolds ==
    /\ (/\ client_call.store = "no row"
        /\ client_call.fn \in {"update_agent_status", "update_agent_mapping_details",
                               "delete_agent_mapping"})
          => client_call.repo_exc = "AgentNotFoundError"
    /\ [][(/\ client_call' # client_call
           /\ client_call'.store = "failed"
           /\ \E a \in Addresses : \E f \in PostgresErrors :
                 \/ CallUpdateStatus(a, "INACTIVE", f)
                 \/ CallDelete(a, f)
                 \/ CallGet(a, f))
             => client_call'.repo_exc = "CAMSRepositoryError"]_vars

\* C30: a lookup returns None exactly when the store reports no row for the
\* address; a lookup that failed in the store does not return None.
C30_NoneExactlyWhenAbsent ==
    client_call.fn \in {"get_agent_mapping", "getAgentMapping"}
        => (client_call.result = "None" <=> client_call.store = "no row")

\* the part of C30 that holds: get_agent_mapping of the router's client returns
\* None exactly when there is no row and raises what the store's failure raised
C30_ClientGetPartHolds ==
    client_call.fn = "get_agent_mapping"
        => /\ client_call.result = "None" <=> client_call.store = "no row"
           /\ client_call.store = "failed" <=> client_call.exc # ""

-----------------------------------------------------------------------------
\* Claims about failures of the store, checked under SpecFailure.

\* C23: a health report, a management DELETE or a management GET during which
\* the directory client raised has been answered 500 with the fixed detail, which
\* is not the exception's text, and so not with a success.
C23_ClientFailureEndsGeneric500 ==
    /\ \A h \in HealthHandlers :
          health[h].raised # ""
             => /\ health[h].pc = "done"
                /\ health[h].code = 500
                /\ health[h].detail = GenericDetail
                /\ health[h].detail # health[h].raised
    /\ \A d \in DeleteRequests :
          mgmt_delete[d].raised # ""
             => /\ mgmt_delete[d].pc = "done"
                /\ mgmt_delete[d].code = 500
                /\ mgmt_delete[d].detail = GenericDetail
                /\ mgmt_delete[d].detail # mgmt_delete[d].raised
    /\ mgmt_get.raised # ""
          => /\ mgmt_get.code = 500
             /\ mgmt_get.detail = GenericDetail
             /\ mgmt_get.detail # mgmt_get.raised

\* the client has raised on the update of a health report, on the delete of a
\* management DELETE and on the lookup of a management GET
C23_Witness ==
    /\ \E h \in HealthHandlers : health[h].raised # "" /\ health[h].writes = 1
    /\ \E d \in DeleteRequests :
          mgmt_delete[d].raised = "CAMSRepositoryError" /\ mgmt_delete[d].code = 500
    /\ mgmt_get.raised = "OSError"

-----------------------------------------------------------------------------
\* Claims about the retrying request, checked under SpecRetry.

Transient(o) == o.kind \in {"transport", "decode"} \/ (o.kind = "status" /\ o.code >= 500)
ClientError(o) == o.kind = "status" /\ o.code >= 400 /\ o.code < 500

\* C9: a request makes at most RetryAttempts attempts; it returns at the first
\* successful attempt, goes on after a transient failure while attempts remain,
\* and raises the last error once RetryAttempts attempts have failed.
C9_RetryBound ==
    \A r \in HttpCallers :
        LET n == Len(http[r].outcomes)
        IN  /\ n <= RetryAttempts
            /\ \A i \in 1..(n - 1) : Transient(http[r].outcomes[i])
            /\ http[r].pc = "attempt"
                  => /\ n < RetryAttempts
                     /\ \A i \in 1..n : Transient(http[r].outcomes[i])
            /\ http[r].pc = "done"
                  => /\ n >= 1
                     /\ http[r].outcomes[n].kind = "ok" => http[r].kind = "return"
                     /\ Transient(http[r].outcomes[n])
                           => /\ n = RetryAttempts
                              /\ http[r].op # "health_check"
                                    => /\ http[r].kind = "raise"
                                       /\ http[r].exc = http[r].outcomes[n]

\* C10: a response with a 4xx status ends the request at that attempt, the first
\* one: nothing follows it, no backoff is taken, and the operation gets that very
\* error (get and delete answer None for 404, health_check answers unhealthy).
C10_ClientErrorNotRetried ==
    \A r \in HttpCallers :
        LET n == Len(http[r].outcomes)
        IN  \A i \in 1..n :
               ClientError(http[r].outcomes[i])
                  => /\ i = 1 /\ n = 1
                     /\ http[r].pc = "done"
                     /\ http[r].backoffs = <<>>
                     /\ http[r].attempt = 0
                     /\ IF http[r].op = "health_check"
                        THEN http[r].kind = "return" /\ http[r].value = "unhealthy"
                        ELSE IF /\ http[r].op \in {"get_agent_mapping",
                                                    "delete_agent_mapping"}
                                /\ http[r].outcomes[1].code = 404
                        THEN http[r].kind = "return" /\ http[r].value = "None"
                        ELSE /\ http[r].kind = "raise"
                             /\ http[r].exc = http[r].outcomes[1]

\* a registration answered 400 and a lookup answered 404 have both ended after one
\* attempt
C10_Witness ==
    \E r \in HttpCallers, q \in HttpCallers :
        /\ http[r].pc = "done" /\ http[r].op = "register_agent_mapping"
        /\ http[r].outcomes = <<[code |-> 400, kind |-> "status"]>>
        /\ http[r].kind = "raise"
        /\ http[q].pc = "done" /\ http[q].op = "get_agent_mapping"
        /\ http[q].outcomes = <<[code |-> 404, kind |-> "status"]>>
        /\ http[q].value = "None"

\* C34: every transient failure that is not the last of the RetryAttempts
\* attempts is followed by a backoff, the i-th backoff of a request lasts
\* 2^(i-1) seconds, and no backoff follows the last attempt.
C34_BackoffDoubles ==
    \A r \in HttpCallers :
        LET n == Len(http[r].outcomes)
            due == {i \in 1..n : i < RetryAttempts /\ Transient(http[r].outcomes[i])}
        IN  /\ Len(http[r].backoffs) = Cardinality(due)
            /\ \A i \in 1..Len(http[r].backoffs) : http[r].backoffs[i] = Pow2(i - 1)

-----------------------------------------------------------------------------
\* Claims about the metrics, checked under SpecMetrics.

\* the invocations of the wrapped operation that have ended, for caller q
Ended(q) == timed[q].calls - (IF timed[q].pc = "awaiting" THEN 1 ELSE 0)

\* C35: every invocation that has ended has recorded one sample; the sample of
\* the last one is labelled success exactly when the operation returned and error
\* exactly when it raised, and the wrapper returned the operation's result or
\* raised what the operation raised.
C35_StatusFollowsOutcome ==
    \A q \in TimedCallers :
        /\ Len(timed[q].recorded) = Ended(q)
        /\ timed[q].ends # ""
              => /\ timed[q].status = "success" <=> timed[q].ends = "return"
                 /\ timed[q].status = "error" <=> timed[q].ends # "return"
                 /\ timed[q].outcome = TimedOutcome(timed[q].ends)

\* the part of C35 that holds: one sample for every invocation that has ended,
\* the result or the exception handed on as it was, and the right label for an
\* operation that returned or raised an Exception
C35_ExceptionPartHolds ==
    \A q \in TimedCallers :
        /\ Len(timed[q].recorded) = Ended(q)
        /\ timed[q].ends # ""
              => /\ timed[q].outcome.kind = "return" <=> timed[q].ends = "return"
                 /\ timed[q].outcome.exc = (IF timed[q].ends = "return" THEN ""
                                            ELSE timed[q].ends)
                 /\ timed[q].ends = "return" => timed[q].status = "success"
                 /\ timed[q].ends = "Exception" => timed[q].status = "error"

RECURSIVE SumAdded(_, _)
SumAdded(callers, k) ==
    IF callers = {} THEN 0
    ELSE LET q == CHOOSE x \in callers : TRUE
         IN  timed[q].added[k] + SumAdded(callers \ {q}, k)

\* how often the sample s occurs in the sequence
Occurrences(seq, s) == Cardinality({i \in 1..Len(seq) : seq[i] = s})

RECURSIVE SumRecorded(_, _)
SumRecorded(callers, s) ==
    IF callers = {} THEN 0
    ELSE LET q == CHOOSE x \in callers : TRUE
         IN  Occurrences(timed[q].recorded, s) + SumRecorded(callers \ {q}, s)

\* the value of a counter, 0 for a key never incremented
CounterValue(k) == IF k \in DOMAIN metrics.counters THEN metrics.counters[k] ELSE 0

\* the samples of a histogram, none for a key never recorded
HistogramValues(k) == IF k \in DOMAIN metrics.histograms THEN metrics.histograms[k] ELSE <<>>

\* C36: each counter equals the sum of the increments the callers have applied to
\* it, and each histogram holds every latency a caller has recorded as often as
\* the callers recorded it.
C36_NoUpdateLost ==
    /\ \A k \in CounterKeys : CounterValue(k) = SumAdded(TimedCallers, k)
    /\ \A st \in {"success", "error"} : \A d \in 0..MaxClock :
          Occurrences(HistogramValues(MetricKey("agent_health_check_duration_seconds", st)), d)
             = SumRecorded(TimedCallers, [status |-> st, seconds |-> d])

\* both callers have made all their invocations, which overlapped: each has
\* incremented the success counter, and the histogram holds latencies of 0 and 1
C36_Witness ==
    /\ \A q \in TimedCallers :
          /\ timed[q].pc = "idle"
          /\ timed[q].calls = MaxInvocations
          /\ timed[q].added[MetricKey("agent_health_reported", "success")] >= 1
    /\ CounterValue(MetricKey("agent_health_reported", "success")) >= 3
    /\ \E i, j \in 1..Len(HistogramValues(MetricKey("agent_health_check_duration_seconds",
                                                    "success"))) :
          LET h == HistogramValues(MetricKey("agent_health_check_duration_seconds",
                                             "success"))
          IN  h[i] = 0 /\ h[j] = 1

-----------------------------------------------------------------------------
\* Claims about the connection pool, checked under SpecPool.

\* the operations that hold a connection of pool p
Holders(p) == {c \in PoolCallers : pool.callers[c].pc = "holding" /\ pool.callers[c].mine = p}

\* the pools created and not closed
LivePools == (1..pool.created) \ pool.closed

RECURSIVE CheckedOut(_)
CheckedOut(pools) ==
    IF pools = {} THEN 0
    ELSE LET p == CHOOSE x \in pools : TRUE
         IN  pool.out[p] + CheckedOut(pools \ {p})

\* C37: the connections checked out are those of the operations under way, one
\* each, all from the one pool the operations share, and never more of them than
\* max_size.
C37_ConnectionsScopedAndBounded ==
    /\ \A p \in 1..MaxPools : pool.out[p] = Cardinality(Holders(p))
    /\ \A c \in PoolCallers, d \in PoolCallers :
          (pool.callers[c].pc = "holding" /\ pool.callers[d].pc = "holding")
             => pool.callers[c].mine = pool.callers[d].mine
    /\ CheckedOut(1..MaxPools) <= PoolMaxSize

\* the part of C37 that holds: a pool has as many connections checked out as
\* operations under way hold, so an operation that has ended, with a result or
\* with an error, holds none, and never more than max_size
C37_ReleasedPartHolds ==
    \A p \in 1..MaxPools :
        /\ pool.out[p] = Cardinality(Holders(p))
        /\ pool.out[p] <= PoolMaxSize

\* C39: at most one pool that has been created is not closed, it is the one
\* _pool refers to, and the operations that hold a connection hold one of that
\* pool.
C39_OnePoolPerProcess ==
    /\ Cardinality(LivePools) <= 1
    /\ \A p \in LivePools : pool.global = p
    /\ \A c \in PoolCallers :
          pool.callers[c].pc = "holding" => pool.callers[c].mine = pool.global

\* the part of C39 that holds: while close_pool is not called, an operation that
\* starts after a pool has been assigned to _pool creates none
C39_LaterCallsPartHolds ==
    [][\A c \in PoolCallers :
          (/\ pool.global # NoPool
           /\ pool.callers[c].pc = "idle"
           /\ pool'.callers[c].pc # "idle")
             => /\ pool'.callers[c].pc = "acquiring"
                /\ pool'.callers[c].mine = pool.global
                /\ pool'.started = pool.started]_vars

====
